---------------------------- MODULE Spec2Model ----------------------------
(***************************************************************************)
(* The enrichment worker of eating.london.restaurants (src/index.js): one  *)
(* run of the engine against the Airtable record store and the Google      *)
(* Places / OpenAI providers.                                              *)
(*                                                                         *)
(* Text values are sequences of one-character strings, so that trimming,   *)
(* lower-casing and slugifying are computed character by character.  A     *)
(* blank cell of the store (an absent key of record.fields) is the empty   *)
(* sequence <<>>; a numeric cell is <<n>> with n counted in units of       *)
(* 10^-11, the finest decimal the model feeds to the rounding.             *)
(***************************************************************************)
EXTENDS Integers, Sequences, FiniteSets, TLC

(***************************************************************************)
(* Bounds of the model.                                                    *)
(***************************************************************************)
MaxIterations == 2
MaxStoreFaults == 2

(***************************************************************************)
(* JavaScript string primitives.                                           *)
(***************************************************************************)
\* String.prototype.toLowerCase, one character: the capital letters that
\* occur in the texts of the model, every other character as it is
LowerChar(c) ==
  CASE c = "C" -> "c" [] c = "D" -> "d" [] c = "E" -> "e" [] c = "H" -> "h"
    [] c = "N" -> "n" [] c = "P" -> "p" [] c = "X" -> "x" [] OTHER -> c

toLowerCase(s) == [i \in DOMAIN s |-> LowerChar(s[i])]

\* the white space and line terminators that trim removes
WhiteSpace == {" ", "\t", "\n", "\r"}

RECURSIVE trimStart(_)
trimStart(s) == IF s # <<>> /\ Head(s) \in WhiteSpace THEN trimStart(Tail(s)) ELSE s

RECURSIVE trimEnd(_)
trimEnd(s) ==
  IF s # <<>> /\ s[Len(s)] \in WhiteSpace THEN trimEnd(SubSeq(s, 1, Len(s) - 1)) ELSE s

\* String.prototype.trim
trim(s) == trimEnd(trimStart(s))

\* const clean = (s) => (s == null ? '' : String(s).trim())
clean(s) == trim(s)

SlugChars ==
  {"a", "b", "c", "d", "e", "f", "h", "i", "m", "n", "o", "p", "r", "s", "t",
   "u", "x", "0", "1"}

\* slugify: the replacement character itself is first read as a space
dashesToSpaces(s) == [i \in DOMAIN s |-> IF s[i] = "-" THEN " " ELSE s[i]]

\* slugify's strict mode: slug.replace(/[^A-Za-z0-9\s]/g, '')
strictChars(s) == SelectSeq(s, LAMBDA c : LowerChar(c) \in SlugChars \/ c = " ")

RECURSIVE spacesToDash(_)
\* slugify: slug.replace(/\s+/g, '-')
spacesToDash(s) ==
  IF s = <<>> THEN <<>>
  ELSE IF Head(s) = " "
       THEN IF Len(s) > 1 /\ s[2] = " "
            THEN spacesToDash(Tail(s))
            ELSE <<"-">> \o spacesToDash(Tail(s))
       ELSE <<Head(s)>> \o spacesToDash(Tail(s))

\* const toSlug = (name) => slugify(name || '', { lower: true, strict: true, trim: true })
toSlug(name) == toLowerCase(spacesToDash(trim(strictChars(dashesToSpaces(name)))))

(***************************************************************************)
(* Numbers.  A number is [neg, whole, frac]: sign, integer part and the    *)
(* decimal digits after the point (no trailing zero).  The arithmetic is   *)
(* exact decimal arithmetic; binary floating-point error is not modelled.  *)
(***************************************************************************)
CoordinatePrecision == 8

Num(neg, whole, frac) == [neg |-> neg, whole |-> whole, frac |-> frac]

RECURSIVE Pow10(_)
Pow10(n) == IF n = 0 THEN 1 ELSE 10 * Pow10(n - 1)

RECURSIVE DigitsToInt(_)
DigitsToInt(ds) ==
  IF ds = <<>> THEN 0 ELSE 10 * DigitsToInt(SubSeq(ds, 1, Len(ds) - 1)) + ds[Len(ds)]

RECURSIVE IntToDigits(_, _)
\* the n-digit decimal expansion of v, leading zeros kept
IntToDigits(v, n) ==
  IF n = 0 THEN <<>> ELSE IntToDigits(v \div 10, n - 1) \o <<v % 10>>

RECURSIVE stripZeros(_)
stripZeros(ds) ==
  IF ds # <<>> /\ ds[Len(ds)] = 0 THEN stripZeros(SubSeq(ds, 1, Len(ds) - 1)) ELSE ds

\* mutant: the extra digits are cut off (Math.trunc in place of Math.round)
roundToPrecision_Truncates(value, precision) ==
  IF Len(value.frac) <= precision THEN value
  ELSE LET frac == stripZeros(SubSeq(value.frac, 1, precision))
       IN  Num(value.neg /\ (value.whole # 0 \/ frac # <<>>), value.whole, frac)

\* Math.round(value * 10^precision) / 10^precision.  Math.round is
\* floor(x + 0.5): a tie goes up, which for a negative value is toward zero.
roundToPrecision(value, precision) ==
  IF Len(value.frac) <= precision THEN value
  ELSE
    LET kept == SubSeq(value.frac, 1, precision)
        rest == SubSeq(value.frac, precision + 1, Len(value.frac))
        tail == SubSeq(rest, 2, Len(rest))
        aboveHalf == rest[1] > 5 \/ (rest[1] = 5 /\ \E i \in DOMAIN tail : tail[i] # 0)
        isHalf == rest[1] = 5 /\ \A i \in DOMAIN tail : tail[i] = 0
        up == aboveHalf \/ (isHalf /\ ~value.neg)
        scaled == DigitsToInt(kept) + (IF up THEN 1 ELSE 0)
        carry == scaled \div Pow10(precision)
        frac == stripZeros(IntToDigits(scaled % Pow10(precision), precision))
        whole == value.whole + carry
    IN  Num(value.neg /\ (whole # 0 \/ frac # <<>>), whole, frac)

\* A value handed to the numeric helpers is <<>> (undefined or null), a
\* finite number <<Num(...)>>, a number that is not finite
\* <<[nonfinite |-> ...]>> or a string <<[text |-> characters]>>.
NaN == <<[nonfinite |-> "NaN"]>>
Infinity == <<[nonfinite |-> "Infinity"]>>
Text(chars) == <<[text |-> chars]>>
isText(value) == value # <<>> /\ "text" \in DOMAIN value[1]

\* Number.isFinite(value), for a value that is a number
isFinite(value) == "nonfinite" \notin DOMAIN value[1]

Digits == <<"0", "1", "2", "3", "4", "5", "6", "7", "8", "9">>
DigitOf(c) == (CHOOSE i \in DOMAIN Digits : Digits[i] = c) - 1

\* the digits a text starts with
RECURSIVE leadingDigits(_)
leadingDigits(text) ==
  IF text # <<>> /\ \E i \in DOMAIN Digits : Digits[i] = Head(text)
  THEN <<DigitOf(Head(text))>> \o leadingDigits(Tail(text))
  ELSE <<>>

\* Number.parseFloat(trimmed): the longest prefix that is a decimal literal
\* (sign, digits, point, digits) or Infinity; NaN when there is none.
\* Exponents do not occur in the texts of the model.
parseFloat(trimmed) ==
  LET signed == trimmed # <<>> /\ Head(trimmed) \in {"-", "+"}
      neg == trimmed # <<>> /\ Head(trimmed) = "-"
      unsigned == IF signed THEN Tail(trimmed) ELSE trimmed
      whole == leadingDigits(unsigned)
      afterWhole == SubSeq(unsigned, Len(whole) + 1, Len(unsigned))
      frac == IF afterWhole # <<>> /\ Head(afterWhole) = "."
              THEN leadingDigits(Tail(afterWhole)) ELSE <<>>
      word == <<"I", "n", "f", "i", "n", "i", "t", "y">>
  IN  IF Len(unsigned) >= Len(word) /\ SubSeq(unsigned, 1, Len(word)) = word
      THEN Infinity
      ELSE IF whole = <<>> /\ frac = <<>> THEN NaN
      ELSE <<Num(neg /\ (DigitsToInt(whole) # 0 \/ stripZeros(frac) # <<>>),
                 DigitsToInt(whole), stripZeros(frac))>>

\* toNumberOrNull(value); null is <<>>
toNumberOrNull(value) ==
  IF value = <<>> THEN <<>>
  ELSE IF ~isText(value) THEN (IF isFinite(value) THEN value ELSE <<>>)
  ELSE IF trim(value[1].text) = <<>> THEN <<>>
  ELSE IF isFinite(parseFloat(trim(value[1].text)))
  THEN parseFloat(trim(value[1].text))
  ELSE <<>>

\* mutant: the fallback is tried first
preferNumeric_FallbackFirst(primary, fallback) ==
  IF toNumberOrNull(fallback) # <<>> THEN toNumberOrNull(fallback)
  ELSE toNumberOrNull(primary)

\* preferNumeric(primary, fallback)
preferNumeric(primary, fallback) ==
  IF toNumberOrNull(primary) # <<>> THEN toNumberOrNull(primary)
  ELSE toNumberOrNull(fallback)

(***************************************************************************)
(* The same rounding in the arithmetic JavaScript does it in.  A number is *)
(* an IEEE 754 double: a sign, an integer of at most 53 binary digits      *)
(* (most significant first, none for zero, the last one 1) and a power of  *)
(* two.  The exponent range is not bounded: overflow to Infinity and       *)
(* subnormal numbers are not modelled.                                     *)
(***************************************************************************)
\* the binary digits of a natural number
RECURSIVE Bits(_)
Bits(n) == IF n = 0 THEN <<>> ELSE Bits(n \div 2) \o <<n % 2>>

\* n zeros
Zeros(n) == IF n <= 0 THEN <<>> ELSE [i \in 1..n |-> 0]

\* digits without leading zeros
significant(digits) ==
  LET ones == {i \in DOMAIN digits : digits[i] = 1}
  IN  IF ones = {} THEN <<>>
      ELSE SubSeq(digits, CHOOSE i \in ones : \A j \in ones : i <= j, Len(digits))

\* the double of the given sign, digits and exponent, digits without
\* leading and trailing zeros
Canonical64(neg, digits, exp) ==
  LET ones == {i \in DOMAIN digits : digits[i] = 1}
      last == CHOOSE i \in ones : \A j \in ones : j <= i
  IN  IF ones = {} THEN [neg |-> neg, bits |-> <<>>, exp |-> 0]
      ELSE [neg |-> neg, bits |-> significant(SubSeq(digits, 1, last)),
            exp |-> exp + Len(digits) - last]

\* the double (hi * 2^27 + lo) * 2^exp
Binary64(neg, hi, lo, exp) ==
  Canonical64(neg, Bits(hi) \o Zeros(27 - Len(Bits(lo))) \o Bits(lo), exp)

\* digits + 1
addOne(digits) ==
  LET zeros == {i \in DOMAIN digits : digits[i] = 0}
      last == CHOOSE i \in zeros : \A j \in zeros : j <= i
  IN  IF zeros = {} THEN <<1>> \o Zeros(Len(digits))
      ELSE [i \in DOMAIN digits |-> IF i < last THEN digits[i] ELSE IF i = last THEN 1 ELSE 0]

\* the result of an operation, rounded to 53 binary digits, ties to even;
\* sticky tells that digits beyond the given ones are not all zero
round53(neg, digits, exp, sticky) ==
  LET ds == significant(digits)
      kept == SubSeq(ds, 1, 53)
      beyond == sticky \/ \E i \in 55..Len(ds) : ds[i] = 1
      up == ds[54] = 1 /\ (beyond \/ kept[53] = 1)
  IN  IF Len(ds) <= 53 THEN Canonical64(neg, ds, exp)
      ELSE Canonical64(neg, IF up THEN addOne(kept) ELSE kept, exp + Len(ds) - 53)

\* binary digits taken four at a time, and back
Hex(digits) ==
  LET padded == Zeros((4 - (Len(digits) % 4)) % 4) \o digits
  IN  [j \in 1..(Len(padded) \div 4) |->
         8 * padded[4 * j - 3] + 4 * padded[4 * j - 2] + 2 * padded[4 * j - 1] + padded[4 * j]]

UnHex(hex) ==
  [i \in 1..(4 * Len(hex)) |->
     LET h == hex[(i - 1) \div 4 + 1]
     IN  CASE (i - 1) % 4 = 0 -> h \div 8
           [] (i - 1) % 4 = 1 -> (h \div 4) % 2
           [] (i - 1) % 4 = 2 -> (h \div 2) % 2
           [] OTHER -> h % 2]

\* value * factor, for a factor that is a small natural number
times64(value, factor) ==
  LET hex == Hex(value.bits)
      RECURSIVE mul(_, _)
      mul(i, carry) ==
        IF i = 0 THEN Hex(Bits(carry))
        ELSE mul(i - 1, (hex[i] * factor + carry) \div 16)
             \o <<(hex[i] * factor + carry) % 16>>
  IN  round53(value.neg, UnHex(mul(Len(hex), 0)), value.exp, FALSE)

\* value / factor, for a factor that is a small natural number
dividedBy64(value, factor) ==
  LET numerator == Hex(value.bits) \o Zeros(21)
      RECURSIVE div(_, _, _)
      div(i, rem, q) ==
        IF i > Len(numerator) THEN [q |-> q, rem |-> rem]
        ELSE div(i + 1, (16 * rem + numerator[i]) % factor,
                 Append(q, (16 * rem + numerator[i]) \div factor))
      d == div(1, 0, <<>>)
  IN  IF value.bits = <<>> THEN value
      ELSE round53(value.neg, UnHex(d.q), value.exp - 84, d.rem # 0)

\* Math.round(value): floor(value + 0.5), so a tie goes up
mathRound(value) ==
  IF value.exp >= 0 THEN value
  ELSE LET s == 0 - value.exp
           padded == Zeros(s + 1 - Len(value.bits)) \o value.bits
           whole == SubSeq(padded, 1, Len(padded) - s)
           half == padded[Len(padded) - s + 1] = 1
           more == \E i \in (Len(padded) - s + 2)..Len(padded) : padded[i] = 1
           up == IF value.neg THEN half /\ more ELSE half
       IN  Canonical64(value.neg, IF up THEN addOne(whole) ELSE whole, 0)

\* roundToPrecision(value, precision) on doubles:
\* Math.round(value * factor) / factor with factor = 10 ** precision
roundToPrecision64(value, precision) ==
  dividedBy64(mathRound(times64(value, Pow10(precision))), Pow10(precision))

\* mutant: only a value that comes from the provider is rounded
coerceNumericField_RoundsIncomingOnly(incoming, fallback, precision) ==
  IF incoming = <<>> THEN fallback
  ELSE IF precision >= 0 THEN <<roundToPrecision(incoming[1], precision)>>
  ELSE incoming

\* coerceNumericField(incoming, fallback, fieldName, options); precision < 0
\* stands for a call without options.precision
coerceNumericField(incoming, fallback, precision) ==
  LET coerced == preferNumeric(incoming, fallback)
  IN  IF coerced = <<>> THEN <<>>
      ELSE IF precision >= 0 THEN <<roundToPrecision(coerced[1], precision)>>
      ELSE coerced

(***************************************************************************)
(* Text literals.                                                          *)
(***************************************************************************)
pending == <<"p", "e", "n", "d", "i", "n", "g">>
enriched == <<"e", "n", "r", "i", "c", "h", "e", "d">>
not_found == <<"n", "o", "t", "_", "f", "o", "u", "n", "d">>
error == <<"e", "r", "r", "o", "r">>
Undefined == <<>>

(***************************************************************************)
(* Select options of Enrichment Status.                                    *)
(***************************************************************************)
\* AIRTABLE_ENRICHMENT_STATUS_OPTIONS, already split at the commas; <<>> is unset
EnvStatusOptions ==
  { <<>>,
    << <<"P", "e", "n", "d", "i", "n", "g">>,
       <<" ", "E", "n", "r", "i", "c", "h", "e", "d">>,
       <<" ">> >>,
    << <<"P", "e", "n", "d", "i", "e", "n", "t", "e">>, <<"H", "e", "c", "h", "o">> >> }

\* parseSelectOptions(value, fallback)
parseSelectOptions(value, fallback) ==
  LET entries == SelectSeq([i \in DOMAIN value |-> trim(value[i])],
                           LAMBDA option : option # <<>>)
  IN  IF value = <<>> THEN fallback
      ELSE IF entries # <<>> THEN entries ELSE fallback

DefaultStatusOptions == <<pending, enriched, not_found, error>>

\* mutant: an unmatched label is passed through
matchSelectOption_ReturnsDesired(desired, options) ==
  IF desired = <<>> THEN Undefined
  ELSE LET normalized == toLowerCase(trim(desired))
           hits == {i \in DOMAIN options : toLowerCase(trim(options[i])) = normalized}
       IN  IF hits = {} THEN desired
           ELSE options[CHOOSE i \in hits : \A j \in hits : i <= j]

\* matchSelectOption(desired, options, fieldName): the first option equal to
\* desired once both are trimmed and lower-cased
matchSelectOption(desired, options) ==
  IF desired = <<>> THEN Undefined
  ELSE LET normalized == toLowerCase(trim(desired))
           hits == {i \in DOMAIN options : toLowerCase(trim(options[i])) = normalized}
       IN  IF hits = {} THEN Undefined
           ELSE options[CHOOSE i \in hits : \A j \in hits : i <= j]

(***************************************************************************)
(* Last Enriched stamps.  A date is one token, a date-time is the date,    *)
(* the letter T and the time.                                              *)
(***************************************************************************)
\* new Date().toISOString()
currentTimestampForAirtable == <<"2025-01-02", "T", "09:00:00.000Z">>

\* currentTimestampForAirtable().split('T')[0]
currentDateForAirtable ==
  LET ts == currentTimestampForAirtable
      cut == CHOOSE i \in DOMAIN ts : ts[i] = "T" /\ \A j \in 1..(i - 1) : ts[j] # "T"
  IN  SubSeq(ts, 1, cut - 1)

\* resolveLastEnrichedValue(existing)
resolveLastEnrichedValue(existing) ==
  IF existing = <<>> THEN currentDateForAirtable
  ELSE IF \E i \in DOMAIN existing : existing[i] = "T" THEN currentTimestampForAirtable
  ELSE currentDateForAirtable

(***************************************************************************)
(* The record store: one row per record id, one cell per column.           *)
(***************************************************************************)
Fields ==
  {"Name", "Slug", "Place ID", "Enrichment Status", "Address", "City", "Postcode",
   "Lat", "Lng", "Website", "Phone", "Cuisine", "Price Level", "Rating",
   "User Ratings", "Opening Hours JSON", "Photo URL", "Photo Attribution",
   "Description", "Last Enriched", "Notes"}

\* the record ids of the table, in table order
RecIds == {1, 2}

BlankRow == [f \in Fields |-> <<>>]

CafeX == <<"C", "a", "f", "e", " ", "X">>

\* rows an operator may have seeded, or an earlier run may have left behind
SeedRows ==
  << \* 1: identity only
     ("Name" :> CafeX) @@ BlankRow,
     \* 2: pending after a failed attempt, identifier already resolved, no photo yet
     ("Name" :> <<"D", "i", "s", "h", "o", "o", "m">> @@ "Slug" :> <<"d", "i", "s", "h", "o", "o", "m">>
        @@ "Place ID" :> <<"p2">> @@ "Enrichment Status" :> <<"P", "e", "n", "d", "i", "n", "g">>
        @@ "Address" :> <<"7 Boundary St">> @@ "Lat" :> <<Num(FALSE, 51, <<5, 2>>)>>
        @@ "Notes" :> <<"timeout of 1000ms exceeded">>
        @@ "Last Enriched" :> <<"2024-04-30", "T", "08:00:00.000Z">>
        @@ "Opening Hours JSON" :> <<"[", "Mon 9-5", "]">>) @@ BlankRow,
     \* 3: enriched and complete
     ("Name" :> <<"H", "i", "d", "e">> @@ "Slug" :> <<"h", "i", "d", "e">>
        @@ "Place ID" :> <<"p3">> @@ "Enrichment Status" :> <<"E", "n", "r", "i", "c", "h", "e", "d">>
        @@ "Address" :> <<"85 Piccadilly">> @@ "Lat" :> <<Num(FALSE, 51, <<5, 0, 6>>)>>
        @@ "Lng" :> <<Num(TRUE, 0, <<1, 4, 4>>)>> @@ "Photo URL" :> <<"https://old.example/hide.jpg">>
        @@ "Description" :> <<"A calm room over the park.">>
        @@ "Last Enriched" :> <<"2024-05-01", "T", "10:00:00.000Z">>
        @@ "Notes" :> <<"checked by hand">>) @@ BlankRow,
     \* 4: marked not_found by an earlier run
     ("Name" :> <<"C", "a", "f", "e", "-", "x">> @@ "Enrichment Status" :> not_found
        @@ "Last Enriched" :> <<"2024-05-01">>) @@ BlankRow,
     \* 5: enriched, photo present, identifier lost
     ("Name" :> <<"s", "t", " ", "x">> @@ "Slug" :> <<"s", "t", "-", "x">>
        @@ "Enrichment Status" :> enriched @@ "Photo URL" :> <<"https://old.example/stx.jpg">>
        @@ "Last Enriched" :> <<"2024-05-01">>) @@ BlankRow,
     \* 6: no name
     ("Enrichment Status" :> pending) @@ BlankRow >>

\* rows of a table that was filled by hand before the engine first ran
LegacyRows ==
  << \* 1: identity only
     ("Name" :> CafeX) @@ BlankRow,
     \* 2: another spelling of the same name
     ("Name" :> <<"C", "a", "f", "e", "-", "x">> @@ "Enrichment Status" :> pending) @@ BlankRow,
     \* 3: every column filled in, the coordinates copied from a map
     ("Name" :> <<"D", "i", "s", "h", "o", "o", "m">> @@ "Slug" :> <<"d", "i", "s", "h", "o", "o", "m">>
        @@ "Place ID" :> <<"p4">> @@ "Enrichment Status" :> error
        @@ "Address" :> <<"7 Boundary St">> @@ "City" :> <<"London">>
        @@ "Postcode" :> <<"E2 7JE">>
        @@ "Lat" :> <<Num(FALSE, 51, <<5, 2, 4, 5, 6, 7, 8, 9, 5>>)>>
        @@ "Lng" :> <<Num(TRUE, 0, <<0, 7, 6, 9, 9, 9, 9, 9, 9, 6>>)>>
        @@ "Website" :> <<"https://dishoom.example">> @@ "Phone" :> <<"+44 20 1111 1111">>
        @@ "Cuisine" :> <<"indian">> @@ "Price Level" :> <<Num(FALSE, 2, <<>>)>>
        @@ "Rating" :> <<Num(FALSE, 4, <<5>>)>> @@ "User Ratings" :> <<Num(FALSE, 90, <<>>)>>
        @@ "Opening Hours JSON" :> <<"[", "Mon 9-5", "]">>
        @@ "Photo URL" :> <<"https://old.example/dishoom.jpg">>
        @@ "Photo Attribution" :> <<"<a>Old</a>">>
        @@ "Description" :> <<"Bombay comfort food.">>
        @@ "Notes" :> <<"timeout of 1000ms exceeded">>
        @@ "Last Enriched" :> <<"2024-04-30">>) @@ BlankRow >>

(***************************************************************************)
(* Provider responses.                                                     *)
(***************************************************************************)
\* the identifier the text search returns when it has a match
PlaceIds == {<<"p1">>}

NoDetail ==
  [name |-> <<>>, formatted_address |-> <<>>, lat |-> <<>>, lng |-> <<>>,
   website |-> <<>>, formatted_phone_number |-> <<>>,
   international_phone_number |-> <<>>, weekday_text |-> <<>>, types |-> <<>>,
   price_level |-> <<>>, rating |-> <<>>, user_ratings_total |-> <<>>,
   address_components |-> <<>>, photos |-> <<>>]

CafeDetails ==
  [NoDetail EXCEPT !.name = CafeX,
                   !.lat = <<Num(FALSE, 51, <<5>>)>>,
                   !.lng = <<Num(TRUE, 0, <<1, 2, 3, 4, 5, 6, 7, 8, 9, 1, 2>>)>>]

FullDetails ==
  [NoDetail EXCEPT !.name = <<"H", "i", "d", "e">>,
                   !.formatted_address = <<"85 Piccadilly, London W1J 7NB">>,
                   !.lat = <<Num(FALSE, 51, <<5, 0, 6, 0, 0, 0, 0, 0, 5>>)>>,
                   !.lng = <<Num(TRUE, 0, <<0, 0, 0, 0, 0, 0, 0, 0, 5>>)>>,
                   !.website = <<"https://hide.example">>,
                   !.international_phone_number = <<"+44 20 0000 0000">>,
                   !.weekday_text = <<"Mon 12-10">>,
                   !.types = << <<"restaurant">>, <<"wine", "_", "bar">>, <<"food">> >>,
                   !.price_level = <<Num(FALSE, 4, <<>>)>>,
                   !.rating = <<Num(FALSE, 4, <<6>>)>>,
                   !.user_ratings_total = <<Num(FALSE, 812, <<>>)>>,
                   !.address_components =
                      << [types |-> {"postal_code"}, long_name |-> <<"W1J 7NB">>],
                         [types |-> {"locality", "political"}, long_name |-> <<"London">>] >>,
                   !.photos = << [photo_reference |-> "ref1",
                                  html_attributions |-> <<"<a>Hide</a>">>] >>]

\* a result that names the place and nothing more
SparseDetails == [NoDetail EXCEPT !.name = <<"D", "i", "s", "h", "o", "o", "m">>]

\* data.result of the details endpoint for a place, when it has one
DetailsOf(pid) ==
  IF pid = <<"p1">> THEN CafeDetails
  ELSE IF pid = <<"p4">> THEN SparseDetails
  ELSE FullDetails

\* extractAddressBits(components)
extractAddressBits(components) ==
  LET get(type) ==
        LET hits == {i \in DOMAIN components : type \in components[i].types}
        IN  IF hits = {} THEN <<>>
            ELSE components[CHOOSE i \in hits : \A j \in hits : i <= j].long_name
  IN  [postcode |-> get("postal_code"),
       city |-> IF get("postal_town") # <<>> THEN get("postal_town") ELSE get("locality")]

\* buildPhotoUrl(photoRef, maxWidth = 1200)
buildPhotoUrl(photoRef) ==
  <<"https://maps.googleapis.com/maps/api/place/photo?maxwidth=1200&photoreference=",
    photoRef, "&key=">>

\* buildPhotoAttribution(photoObj): html_attributions.join(' ')
buildPhotoAttribution(photoObj) == photoObj.html_attributions

\* texts the text-generation provider may return
GeneratedTexts == {<<"An easy room for long lunches.">>}

(***************************************************************************)
(* Faults.                                                                 *)
(***************************************************************************)
NoError == [statusCode |-> 0, error |-> "", message |-> <<>>]

AirtableNotFound ==
  [statusCode |-> 404, error |-> "NOT_FOUND", message |-> <<"Could not find what you are looking for">>]

AirtableUnknownNotes ==
  [statusCode |-> 422, error |-> "UNKNOWN_FIELD_NAME",
   message |-> <<"Unknown field name: ", "N", "o", "t", "e", "s">>]

AirtableFormulaNotes ==
  [statusCode |-> 422, error |-> "INVALID_FILTER_BY_FORMULA",
   message |-> <<"Unknown field names: ", "n", "o", "t", "e", "s">>]

AirtableInvalidOption ==
  [statusCode |-> 422, error |-> "INVALID_MULTIPLE_CHOICE_OPTIONS",
   message |-> <<"Insufficient permissions to create new select option">>]

ProviderFault ==
  [statusCode |-> 0, error |-> "", message |-> <<"Request failed with status code 500">>]

\* reading the try block's own isAlreadyEnriched before its declaration has run
ReferenceError ==
  [statusCode |-> 0, error |-> "",
   message |-> <<"Cannot access 'isAlreadyEnriched' before initialization">>]

\* what the store may answer to a write
WriteFaults == {AirtableNotFound, AirtableUnknownNotes, AirtableInvalidOption}

\* what the store may answer to the eligibility query
SelectFaults == {AirtableNotFound, AirtableFormulaNotes, AirtableInvalidOption}

\* mutant: the error code is compared with the wrong constant
isAirtableNotFound_WrongCode(e) == e.statusCode = 404 /\ e.error = "MODEL_NOT_FOUND"

\* const isAirtableNotFound = (err) => err?.statusCode === 404 && err?.error === 'NOT_FOUND'
isAirtableNotFound(e) == e.statusCode = 404 /\ e.error = "NOT_FOUND"

\* error.message.toLowerCase().includes('notes')
mentionsNotes(message) ==
  LET m == toLowerCase(message)
  IN  \E i \in 1..(Len(m) - 4) : SubSeq(m, i, i + 4) = <<"n", "o", "t", "e", "s">>

(***************************************************************************)
(* State.                                                                  *)
(***************************************************************************)
VARIABLES
  enrichmentStatusOptions, \* parsed AIRTABLE_ENRICHMENT_STATUS_OPTIONS
  refreshPhotos,           \* --refresh-photos / REFRESH_PHOTOS
  OPENAI_ENABLED,          \* Boolean(OPENAI_API_KEY)
  runContinuously,         \* runAllFlag || !runOnceFlag
  maxPerBatch,             \* parseMaxRecords()
  table,                   \* the Airtable table: record id -> row
  notesFieldAvailable,     \* the module-level latch
  pc,                      \* where run() and the enrichRecord it awaits stand
  toProcess,               \* the rest of the fetched batch, current record first
  totalProcessed,
  iteration,
  placeId,                 \* enrichRecord's local
  details,                 \* enrichRecord's local
  description,             \* enrichRecord's local
  payload,                 \* upsertBySlug: the fields enrichRecord asked to write
  prepared,                \* performTableAction: the fields being sent
  inCatch,                 \* the pending write was issued by the catch handler
  err,                     \* the fault last thrown while the run was at work
  exitCode,                \* process.exit code, 0 while none
  storeFaults,             \* how many requests the store has rejected so far
  \* the JSON feed (src/server.js)
  cache,                   \* createRestaurantsRouter's cache: { data, fetchedAt }
  clock,                   \* Date.now()
  storeVersion,            \* what the table holds: it changes with every edit
  requests,                \* the calls of fetchRestaurants that are under way
  \* the profile-link backfill (src/scripts/update_from_main.sh, src/lib/instagram.js)
  forceRecheck,            \* --force
  records,                 \* await table.select().all()
  step,                    \* where the backfill's run() stands
  examined,
  skipped,
  updatedCount,
  instagramCache,          \* website -> the lookup last stored for it
  updates,                 \* the updates not yet flushed
  lookup,                  \* what the last call of findInstagramProfile settled with
  response,                \* what the website answered to that call's request
  invocations,             \* the websites findInstagramProfile was called with, in order
  written,                 \* the updates the store has accepted
  \* a pure function under evaluation
  fn,                      \* the function called
  args,                    \* what it was called with
  results,                 \* what the calls made so far returned
  \* the bookability rankings (src/controllers/rankingController.js)
  cachedRankings,          \* <<>> while null, otherwise <<rows>>
  lastUpdated,             \* 0 while null, otherwise the ordinal of the time stamp
  isComputing,
  computing,               \* the invocations of computeRankings that are under way
  res,                     \* what the last request was answered with
  lastGet                  \* how the last call of safeGet settled

config == <<enrichmentStatusOptions, refreshPhotos, OPENAI_ENABLED, runContinuously, maxPerBatch>>
locals == <<placeId, details, description>>
engineVars ==
  <<enrichmentStatusOptions, refreshPhotos, OPENAI_ENABLED, runContinuously,
    maxPerBatch, table, notesFieldAvailable, pc, toProcess, totalProcessed,
    iteration, placeId, details, description, payload, prepared, inCatch, err,
    exitCode, storeFaults>>
feedVars == <<cache, clock, storeVersion, requests>>
backfillVars ==
  <<forceRecheck, records, step, examined, skipped, updatedCount, instagramCache,
    updates, lookup, response, invocations, written>>
callVars == <<fn, args, results>>

rankVars == <<cachedRankings, lastUpdated, isComputing, computing, res, lastGet>>
vars == <<engineVars, feedVars, backfillVars, callVars, rankVars>>

NoPayload == [f \in {} |-> <<>>]

\* pickEnrichmentStatus(status, fallback)
pickEnrichmentStatus(status, fallback) ==
  LET matched == matchSelectOption(status, enrichmentStatusOptions)
  IN  IF matched # Undefined THEN matched
      ELSE IF fallback # <<>> THEN matchSelectOption(fallback, enrichmentStatusOptions)
      ELSE Undefined

\* enrichRecord's isAlreadyEnriched, as computed from record.fields
isAlreadyEnriched(fields) ==
  LET enrichedStatusValue == pickEnrichmentStatus(enriched, <<>>)
  IN  /\ enrichedStatusValue # Undefined
      /\ toLowerCase(trim(fields["Enrichment Status"])) =
           toLowerCase(trim(enrichedStatusValue))

(***************************************************************************)
(* The eligibility query.                                                  *)
(***************************************************************************)
\* mutant: records in error are not retried
statusesToReprocess_NoError == <<pending, enriched>>

statusesToReprocess == <<pending, error, enriched>>

\* buildStatusFilterFormula(statuses), evaluated by the store on one row
StatusFilter(row) ==
  \/ \E i \in DOMAIN statusesToReprocess :
       toLowerCase(row["Enrichment Status"]) = toLowerCase(statusesToReprocess[i])
  \/ row["Enrichment Status"] = <<>>

\* mutant: a blank Description is no reason to fetch a record
RecheckFilter_IgnoresDescription(row) ==
  \/ row["Place ID"] = <<>>
  \/ row["Photo URL"] = <<>>
  \/ refreshPhotos

\* the OR(...) of recheckPredicates
RecheckFilter(row) ==
  \/ row["Place ID"] = <<>>
  \/ row["Photo URL"] = <<>>
  \/ refreshPhotos
  \/ OPENAI_ENABLED /\ row["Description"] = <<>>

\* mutant: the refresh flag lifts the status condition as well
Filter_RefreshSkipsStatus(row) ==
  (refreshPhotos \/ StatusFilter(row)) /\ RecheckFilter(row)

\* filterByFormula of fetchPendingBatch
Filter(row) == StatusFilter(row) /\ RecheckFilter(row)

RECURSIVE SelectFrom(_, _)
\* table.select({ filterByFormula, maxRecords }): matching rows in table order
SelectFrom(id, limit) ==
  IF id \notin RecIds \/ limit = 0 THEN <<>>
  ELSE IF Filter(table[id])
       THEN <<[id |-> id, fields |-> table[id]]>> \o SelectFrom(id + 1, limit - 1)
       ELSE SelectFrom(id + 1, limit)

(***************************************************************************)
(* Writes.                                                                 *)
(***************************************************************************)
\* sanitizeOptionalFields(fields)
sanitizeOptionalFields(fields) ==
  IF ~notesFieldAvailable /\ "Notes" \in DOMAIN fields
  THEN [f \in DOMAIN fields \ {"Notes"} |-> fields[f]]
  ELSE fields

\* mutant: the omitSlug option is ignored
upsertBySlug_IgnoresOmitSlug(slug, fields, omitSlug) ==
  IF clean(slug) # <<>> THEN ("Slug" :> clean(slug)) @@ fields ELSE fields

\* upsertBySlug(slug, fields, recordId, { omitSlug }) for a fetched record:
\* recordId is set, so the payload goes to performTableAction('update', ...)
upsertBySlug(slug, fields, omitSlug) ==
  IF ~omitSlug /\ clean(slug) # <<>>
  THEN ("Slug" :> clean(slug)) @@ fields
  ELSE fields

\* a record id that is not in the table: the record a create call adds
CreatedId == 0

\* mutant: the record is looked up by its Slug although its id is known
upsertRecordId_IgnoresRecordId(slug, recordId) ==
  LET found == {id \in RecIds : clean(slug) # <<>> /\ table[id]["Slug"] = clean(slug)}
  IN  IF found # {} THEN CHOOSE id \in found : \A other \in found : id <= other
      ELSE CreatedId

\* upsertBySlug lines 282-300: the record the payload goes to.  With a
\* recordId it is that record; without one it is the first record whose Slug
\* equals the slug, or else a record created for the payload.
upsertRecordId(slug, recordId) ==
  IF recordId # CreatedId THEN recordId
  ELSE LET found == {id \in RecIds : clean(slug) # <<>> /\ table[id]["Slug"] = clean(slug)}
       IN  IF found # {} THEN CHOOSE id \in found : \A other \in found : id <= other
           ELSE CreatedId

\* mutant: the latch is not consulted
isMissingNotesFieldError_NoLatch(e) ==
  e.statusCode = 422 /\ mentionsNotes(e.message)

\* const isMissingNotesFieldError = (error) => ...
isMissingNotesFieldError(e) ==
  notesFieldAvailable /\ e.statusCode = 422 /\ mentionsNotes(e.message)

\* the store applies an update to a row
Applied(row, fields) ==
  [f \in Fields |-> IF f \in DOMAIN fields THEN fields[f] ELSE row[f]]

\* the store applies the request; a created record lies outside the table
\* that is modelled
Updated(id, fields) ==
  IF id \in RecIds THEN [table EXCEPT ![id] = Applied(@, fields)] ELSE table

(***************************************************************************)
(* enrichRecord: the merge.                                                *)
(***************************************************************************)
\* JavaScript a || b on two texts
Or(a, b) == IF a # <<>> THEN a ELSE b

\* the record enrichRecord is working on
rec == Head(toProcess)

Slug(fields) == Or(clean(fields["Slug"]), toSlug(clean(fields["Name"])))

ExcludedTypes ==
  { <<"point", "_", "of", "_", "interest">>, <<"establishment">>, <<"food">>,
    <<"restaurant">> }

\* (details.types || []).filter(...).map((t) => t.replace(/_/g, ' '))[0]
firstCuisine(types) ==
  LET kept == SelectSeq(types, LAMBDA t : t \notin ExcludedTypes)
  IN  IF kept = <<>> THEN <<>>
      ELSE [i \in DOMAIN kept[1] |-> IF kept[1][i] = "_" THEN " " ELSE kept[1][i]]

photoUrlOf(d) ==
  IF d.photos # <<>> THEN buildPhotoUrl(d.photos[1].photo_reference) ELSE <<>>

photoAttrOf(d) ==
  IF d.photos # <<>> THEN buildPhotoAttribution(d.photos[1]) ELSE <<>>

\* JSON.stringify(details.opening_hours?.weekday_text || [])
openingHoursJson(d) == <<"[">> \o d.weekday_text \o <<"]">>

\* enrichRecord lines 533-541: the patch for an already enriched record
PhotoPatch(fields, d) ==
  "Photo URL" :> Or(photoUrlOf(d), fields["Photo URL"])

\* enrichRecord lines 546-568: the full merged field set
FullPayload(fields, pid, d, text) ==
  LET bits == extractAddressBits(d.address_components)
      enrichedStatusValue == pickEnrichmentStatus(enriched, <<>>)
      merged ==
        "Name" :> Or(d.name, clean(fields["Name"]))
        @@ "Slug" :> Slug(fields)
        @@ "Place ID" :> pid
        @@ "Address" :> Or(d.formatted_address, fields["Address"])
        @@ "City" :> Or(bits.city, fields["City"])
        @@ "Postcode" :> Or(bits.postcode, fields["Postcode"])
        @@ "Lat" :> coerceNumericField(d.lat, fields["Lat"], CoordinatePrecision)
        @@ "Lng" :> coerceNumericField(d.lng, fields["Lng"], CoordinatePrecision)
        @@ "Website" :> Or(d.website, fields["Website"])
        @@ "Phone" :> Or(d.formatted_phone_number,
                         Or(d.international_phone_number, fields["Phone"]))
        @@ "Cuisine" :> Or(firstCuisine(d.types), fields["Cuisine"])
        @@ "Price Level" :> coerceNumericField(d.price_level, fields["Price Level"], -1)
        @@ "Rating" :> coerceNumericField(d.rating, fields["Rating"], -1)
        @@ "User Ratings" :> coerceNumericField(d.user_ratings_total, fields["User Ratings"], -1)
        @@ "Opening Hours JSON" :> openingHoursJson(d)
        @@ "Photo URL" :> Or(photoUrlOf(d), fields["Photo URL"])
        @@ "Photo Attribution" :> Or(photoAttrOf(d), fields["Photo Attribution"])
        @@ "Description" :> Or(text, fields["Description"])
        @@ "Last Enriched" :> resolveLastEnrichedValue(fields["Last Enriched"])
  IN  IF enrichedStatusValue # Undefined
      THEN ("Enrichment Status" :> enrichedStatusValue) @@ merged
      ELSE merged

\* mutant: the handler's write carries the label and the fault text only
FallbackFields_NoTimestamp(fields, e) ==
  LET status == pickEnrichmentStatus(error, pending)
      fallbackFields == "Notes" :> e.message
  IN  IF status # Undefined
      THEN ("Enrichment Status" :> status) @@ fallbackFields
      ELSE fallbackFields

\* enrichRecord lines 583-588: what the catch handler writes
FallbackFields(fields, e) ==
  LET status == pickEnrichmentStatus(error, pending)
      fallbackFields ==
        "Notes" :> e.message
        @@ "Last Enriched" :> resolveLastEnrichedValue(fields["Last Enriched"])
  IN  IF status # Undefined
      THEN ("Enrichment Status" :> status) @@ fallbackFields
      ELSE fallbackFields

\* enrichRecord lines 452-456: the not_found update
NotFoundFields(fields) ==
  LET status == pickEnrichmentStatus(not_found, <<>>)
      update == "Last Enriched" :> resolveLastEnrichedValue(fields["Last Enriched"])
  IN  IF status # Undefined THEN ("Enrichment Status" :> status) @@ update ELSE update

\* enrichRecord lines 471-477: the update after an empty details answer
NoDetailsFields(fields, pid) ==
  LET status == pickEnrichmentStatus(error, pending)
      update ==
        "Place ID" :> pid
        @@ "Notes" :> <<"No details returned from Places">>
        @@ "Last Enriched" :> resolveLastEnrichedValue(fields["Last Enriched"])
  IN  IF status # Undefined THEN ("Enrichment Status" :> status) @@ update ELSE update

\* mutant: the stored identifier is not consulted
needsLookup_Always(fields) == TRUE

\* enrichRecord lines 443-444: let placeId = clean(fields['Place ID']); if (!placeId)
needsLookup(fields) == clean(fields["Place ID"]) = <<>>

\* The try block declares its own const isAlreadyEnriched on line 485.  A use
\* of the name inside the block on an earlier line reads that binding before
\* it is initialised, which throws a ReferenceError.
InnerDeclaredAt == 485
innerInitialised(line) == line > InnerDeclaredAt

(***************************************************************************)
(* The JSON feed (src/server.js): fetchRestaurants and its cache.  Time is *)
(* counted in ticks of the clock; the record set the store holds is named  *)
(* by its version.                                                         *)
(***************************************************************************)
MaxClock == 4
MaxEdits == 2

\* const ttl = ... cacheTtlMs : DEFAULT_TTL, in ticks
ttl == 2

\* the HTTP requests that may be under way at once
ReqIds == {1, 2}

\* cache.data = null
NoData == <<>>

NoResult == [data |-> NoData, fetchedAt |-> 0, cached |-> FALSE]

\* no call of fetchRestaurants is under way in this slot
NoRequest ==
  [phase |-> "idle", forceRefresh |-> FALSE, records |-> NoData,
   result |-> NoResult, at |-> 0]

\* mutant: an entry of the cache never expires
cacheFresh_NoExpiry(forceRefresh, now) == ~forceRefresh /\ cache.data # NoData

\* fetchRestaurants line 156: !forceRefresh && cache.data && now - cache.fetchedAt < ttl
cacheFresh(forceRefresh, now) ==
  ~forceRefresh /\ cache.data # NoData /\ now - cache.fetchedAt < ttl

\* the feed server before its first request
FeedIdle ==
  /\ cache = [data |-> NoData, fetchedAt |-> 0]
  /\ clock = 1
  /\ storeVersion = 0
  /\ requests = [r \in ReqIds |-> NoRequest]

\* no engine run is under way
EngineIdle ==
  /\ enrichmentStatusOptions = DefaultStatusOptions
  /\ refreshPhotos = FALSE
  /\ OPENAI_ENABLED = FALSE
  /\ runContinuously = TRUE
  /\ maxPerBatch = 1
  /\ table = [id \in RecIds |-> BlankRow]
  /\ notesFieldAvailable = TRUE
  /\ pc = "done"
  /\ toProcess = <<>>
  /\ totalProcessed = 0
  /\ iteration = 0
  /\ placeId = <<>>
  /\ details = NoDetail
  /\ description = <<>>
  /\ payload = NoPayload
  /\ prepared = NoPayload
  /\ inCatch = FALSE
  /\ err = NoError
  /\ exitCode = 0
  /\ storeFaults = 0

(***************************************************************************)
(* The profile-link scraper (src/lib/instagram.js).  A website URL is a    *)
(* sequence of tokens (scheme, slashes, spaces, host); a page is what the  *)
(* two scans of extractFromHtml capture in it, in order.                   *)
(***************************************************************************)
\* sanitizeWebsiteUrl: trimmed.replace(/^\/*/, '')
RECURSIVE stripLeadingSlashes(_)
stripLeadingSlashes(s) ==
  IF s # <<>> /\ Head(s) = "/" THEN stripLeadingSlashes(Tail(s)) ELSE s

\* sanitizeWebsiteUrl(url); null is <<>>
sanitizeWebsiteUrl(url) ==
  LET trimmed == trim(url)
  IN  IF url = <<>> \/ trimmed = <<>> THEN <<>>
      ELSE IF Head(trimmed) \in {"http://", "https://"} THEN trimmed
      ELSE <<"https://">> \o stripLeadingSlashes(trimmed)

\* sanitizeInstagramUsername(username)
sanitizeInstagramUsername(username) ==
  LET kept == SelectSeq(username, LAMBDA c : LowerChar(c) \in SlugChars \cup {"_", "."})
      headless == IF kept # <<>> /\ Head(kept) = "." THEN Tail(kept) ELSE kept
      RECURSIVE dropDots(_)
      dropDots(u) ==
        IF u # <<>> /\ u[Len(u)] = "." THEN dropDots(SubSeq(u, 1, Len(u) - 1)) ELSE u
  IN  dropDots(headless)

\* toInstagramUrl(username)
toInstagramUrl(username) == <<"https://www.instagram.com/">> \o username \o <<"/">>

\* response.data that is not a string
NoPage == [isString |-> FALSE, links |-> <<>>, handles |-> <<>>]

\* pages a website may serve
Pages ==
  { \* a profile link after one that sanitizes to nothing
    [isString |-> TRUE,
     links |-> << <<".", ".">>, <<"c", "a", "f", "e", "-", "x", ".">> >>,
     handles |-> <<>>],
    \* an e-mail address and an @handle
    [isString |-> TRUE, links |-> <<>>,
     handles |-> << [name |-> <<"i", "n", "f", "o">>, email |-> TRUE],
                    [name |-> <<"c", "a", "f", "e", "x">>, email |-> FALSE] >>],
    \* neither
    [isString |-> TRUE, links |-> <<>>, handles |-> <<>>] }

NoExtract == [url |-> <<>>, username |-> <<>>, source |-> ""]

\* extractFromHtml(html): the first capture of the link scan with a usable
\* username, else the first of the handle scan outside an e-mail context
extractFromHtml(html) ==
  LET usableLinks ==
        {i \in DOMAIN html.links : sanitizeInstagramUsername(html.links[i]) # <<>>}
      usableHandles ==
        {i \in DOMAIN html.handles :
           /\ sanitizeInstagramUsername(html.handles[i].name) # <<>>
           /\ ~html.handles[i].email}
      first(S) == CHOOSE i \in S : \A j \in S : i <= j
      profile(raw, source) ==
        [url |-> toInstagramUrl(sanitizeInstagramUsername(raw)),
         username |-> sanitizeInstagramUsername(raw), source |-> source]
  IN  IF ~html.isString THEN NoExtract
      ELSE IF usableLinks # {} THEN profile(html.links[first(usableLinks)], "link")
      ELSE IF usableHandles # {}
      THEN profile(html.handles[first(usableHandles)].name, "handle")
      ELSE NoExtract

\* no request was made
NoAnswer == [status |-> 0, data |-> NoPage, code |-> "none", message |-> <<>>]

\* what a request to a website may end with: a response of some HTTP status,
\* or a network error without a response
NetAnswers ==
  {[status |-> 200, data |-> page, code |-> "", message |-> <<>>] : page \in Pages \cup {NoPage}}
  \cup {[status |-> code, data |-> NoPage, code |-> "ERR_BAD_RESPONSE",
         message |-> <<"Request failed with status code ", ToString(code)>>] : code \in {404, 500}}
  \cup {[status |-> 0, data |-> NoPage, code |-> "ENOTFOUND",
         message |-> <<"getaddrinfo ENOTFOUND">>],
        [status |-> 0, data |-> NoPage, code |-> "ECONNABORTED",
         message |-> <<"timeout of 10000ms exceeded">>],
        [status |-> 0, data |-> NoPage, code |-> "ECONNRESET", message |-> <<>>]}

\* validateStatus: (status) => status >= 200 && status < 400
validateStatus(status) == status >= 200 /\ status < 400

\* lines 85-88: the function returns before any request when the URL
\* sanitizes to null
requestMade(websiteUrl) == sanitizeWebsiteUrl(websiteUrl) # <<>>

\* what an await of the function ends with: a value, or a rejection
Fulfilled(value) == [settled |-> "fulfilled"] @@ value
Rejected(e) ==
  [settled |-> "rejected", url |-> <<>>, username |-> <<>>, source |-> "",
   error |-> e.code, status |-> "", message |-> e.message]

ErrorResult(kind, status, message) ==
  [url |-> <<>>, username |-> <<>>, source |-> "", error |-> kind,
   status |-> status, message |-> message]

NoLookup == Fulfilled(ErrorResult("", "", <<>>))

\* mutant: the request is made outside the try block
findInstagramProfile_NoCatch(websiteUrl, settledWith) ==
  LET normalizedWebsite == sanitizeWebsiteUrl(websiteUrl)
      extracted == extractFromHtml(settledWith.data)
  IN  IF normalizedWebsite = <<>>
      THEN Fulfilled(ErrorResult("invalid_website", "", <<"No website URL provided.">>))
      ELSE IF settledWith.status # 0 /\ validateStatus(settledWith.status)
      THEN IF extracted # NoExtract
           THEN Fulfilled(extracted @@ [error |-> "", status |-> "", message |-> <<>>])
           ELSE Fulfilled(ErrorResult("not_found", "",
                                      <<"No Instagram profile link found on website.">>))
      ELSE Rejected(settledWith)

\* findInstagramProfile(websiteUrl, options), lines 83-130; settledWith is
\* what the request of line 96 ended with (NoAnswer when none was made)
findInstagramProfile(websiteUrl, settledWith) ==
  LET normalizedWebsite == sanitizeWebsiteUrl(websiteUrl)
      extracted == extractFromHtml(settledWith.data)
  IN  IF normalizedWebsite = <<>>
      THEN Fulfilled(ErrorResult("invalid_website", "", <<"No website URL provided.">>))
      ELSE IF settledWith.status # 0 /\ validateStatus(settledWith.status)
      THEN IF extracted # NoExtract
           THEN Fulfilled(extracted @@ [error |-> "", status |-> "", message |-> <<>>])
           ELSE Fulfilled(ErrorResult("not_found", "",
                                      <<"No Instagram profile link found on website.">>))
      ELSE IF settledWith.status # 0
      THEN Fulfilled(ErrorResult("request_failed", ToString(settledWith.status),
                                 <<"Request failed with status code ",
                                   ToString(settledWith.status)>>))
      ELSE IF settledWith.code = "ENOTFOUND"
      THEN Fulfilled(ErrorResult("request_failed", "", <<"Domain lookup failed.">>))
      ELSE Fulfilled(ErrorResult("request_failed", "",
                                 IF settledWith.message # <<>> THEN settledWith.message
                                 ELSE <<"Failed to fetch website.">>))

(***************************************************************************)
(* The profile-link backfill (src/scripts/update_from_main.sh).            *)
(***************************************************************************)
found == <<"f", "o", "u", "n", "d">>
retry == <<"r", "e", "t", "r", "y">>

\* parseSelectOptions(AIRTABLE_INSTAGRAM_STATUS_OPTIONS, [...]) with the
\* variable unset
instagramStatusOptions ==
  parseSelectOptions(<<>>, <<pending, found, not_found, error, retry>>)

\* pickInstagramStatus(status, fallback, options)
pickInstagramStatus(status, fallback, options) ==
  LET matched == matchSelectOption(status, options)
      fallbackMatched == matchSelectOption(fallback, options)
  IN  IF matched # Undefined THEN matched
      ELSE IF fallback # <<>> /\ fallbackMatched # Undefined THEN fallbackMatched
      ELSE Undefined

\* normalizeInstagramProfileUrl(raw): imported by the script from
\* lib/instagram.js; the canonical profile URL of the username the text
\* holds, '' when it holds none
normalizeInstagramProfileUrl(raw) ==
  IF sanitizeInstagramUsername(raw) = <<>> THEN <<>>
  ELSE toInstagramUrl(sanitizeInstagramUsername(raw))

\* flushUpdates: updates.splice(0, 10)
FlushSize == 10

\* the most rows of the pool a seeded table holds
MaxRows == 3

siteA == <<"https://", "a.example">>
siteB == <<"/", "/", "b.example">>
cafex == <<"c", "a", "f", "e", "x">>

BackfillRow(id, website, instagram, status) ==
  [id |-> id,
   fields |-> [f \in {"Website", "Instagram", "Instagram Status"} |->
                 CASE f = "Website" -> website
                   [] f = "Instagram" -> instagram
                   [] OTHER -> status]]

\* the rows a seeded table draws from: two that share a website, one whose
\* website has no scheme, one whose website is blank, one without website,
\* and two that hold a profile link already (one not in canonical form)
RowPool ==
  << BackfillRow(1, siteA, <<>>, <<>>),
     BackfillRow(2, siteA, <<>>, pending),
     BackfillRow(3, siteB, <<>>, not_found),
     BackfillRow(4, <<" ">>, <<>>, <<>>),
     BackfillRow(5, <<>>, <<>>, <<>>),
     BackfillRow(6, siteA, <<"instagram.com/">> \o cafex, <<>>),
     BackfillRow(7, <<>>, toInstagramUrl(cafex), found) >>

\* rows of the pool in table order
RECURSIVE RowsFrom(_, _)
RowsFrom(i, n) ==
  IF n = 0 \/ i > Len(RowPool) THEN {<<>>}
  ELSE {<<RowPool[i]>> \o rest : rest \in RowsFrom(i + 1, n - 1)}
       \cup RowsFrom(i + 1, n)

\* a table large enough for the loop to fill a batch: rows without website
\* and status, then the two rows that share a website
FullBatchTable ==
  [i \in 1..(FlushSize - 1) |-> BackfillRow(10 + i, <<>>, <<>>, <<>>)]
  \o <<RowPool[1], RowPool[2]>>

BackfillTables == (RowsFrom(1, MaxRows) \ {<<>>}) \cup {FullBatchTable}

NoCache == [w \in {} |-> NoLookup]

\* no pure function is under evaluation
CallIdle ==
  /\ fn = "none"
  /\ args = <<>>
  /\ results = <<>>

BackfillIdle ==
  /\ forceRecheck = FALSE
  /\ records = <<>>
  /\ step = "done"
  /\ examined = 0
  /\ skipped = 0
  /\ updatedCount = 0
  /\ instagramCache = NoCache
  /\ updates = <<>>
  /\ lookup = NoLookup
  /\ response = NoAnswer
  /\ invocations = <<>>
  /\ written = <<>>

(***************************************************************************)
(* The bookability rankings (src/controllers/rankingController.js, the     *)
(* controller that keeps isComputing).  A response of the availability API *)
(* is taken by the number of dinner slots countDinnerSlots finds in it,    *)
(* <<>> when it carries no availability data.                              *)
(***************************************************************************)
\* how many computations the model lets finish
MaxRuns == 2

padella == [slug |-> "padella", name |-> "Padella", rating |-> <<>>]
dishoom == [slug |-> "dishoom", name |-> "Dishoom", rating |-> <<45>>]
unlisted == [slug |-> "", name |-> "Unlisted", rating |-> <<>>]

\* what the live feed may return
Feeds == {<<>>, <<padella>>, <<unlisted, padella>>, <<padella, dishoom>>}

\* countDinnerSlots of a response: null or a count
SlotCounts == {<<>>, <<0>>, <<3>>}

\* what axios.get may reject with: an HTTP status or an error code
HttpError(status, code) == [status |-> status, code |-> code]

GetErrors ==
  {HttpError(n, "ERR_BAD_RESPONSE") : n \in {404, 429, 500, 502, 503, 504}}
    \cup {HttpError(0, "ERR_HTTP2_PROTOCOL_ERROR"), HttpError(0, "ECONNRESET")}

\* an attempt of axios.get that has not settled
Unsettled == [settled |-> "no"]

GetAnswers ==
  {[settled |-> "fulfilled", slots |-> n] : n \in SlotCounts}
    \cup {[settled |-> "rejected", error |-> e] : e \in GetErrors}

\* safeGet(url, retries = 3, delay = 2000)
DefaultRetries == 3

\* mutant: every error is retried
transient_Any(fault) == TRUE

\* transient.includes(status) || err.code === "ERR_HTTP2_PROTOCOL_ERROR"
transient(fault) ==
  fault.status \in {429, 500, 502, 503, 504} \/ fault.code = "ERR_HTTP2_PROTOCOL_ERROR"

\* [...values].sort((a, b) => a - b)
RECURSIVE sortAscending(_)
sortAscending(values) ==
  IF values = <<>> THEN <<>>
  ELSE LET rest == sortAscending(Tail(values))
           below == SelectSeq(rest, LAMBDA v : v <= Head(values))
           above == SelectSeq(rest, LAMBDA v : v > Head(values))
       IN  below \o <<Head(values)>> \o above

\* percentile(values, p)
percentile(values, p) ==
  LET sorted == sortAscending(values)
      last == Len(sorted) - 1
      floor == (p * last) \div 100
      idx == IF floor < 0 THEN 0 ELSE IF floor > last THEN last ELSE floor
  IN  IF values = <<>> THEN 0 ELSE sorted[idx + 1]

\* the smallest of a non-empty sequence of numbers
minOf(values) == sortAscending(values)[1]

\* normalizeToScore(results): every result with its bookability_score,
\* <<>> for null
normalizeToScore(fetched) ==
  LET valid == SelectSeq(fetched, LAMBDA r : r.ok /\ r.slots # <<>>)
      rawSlots == [i \in DOMAIN valid |-> valid[i].slots[1]]
      minSlots == minOf(rawSlots)
      p95Slots == percentile(rawSlots, 95)
      denom == IF p95Slots - minSlots > 1 THEN p95Slots - minSlots ELSE 1
      capped(r) == IF r.slots[1] < p95Slots THEN r.slots[1] ELSE p95Slots
      \* Math.round((1 - (capped - minSlots) / denom) * 100)
      score(r) == (200 * (denom - (capped(r) - minSlots)) + denom) \div (2 * denom)
  IN  [i \in DOMAIN fetched |->
         [ok |-> fetched[i].ok, slots |-> fetched[i].slots,
          restaurant |-> fetched[i].restaurant,
          bookability_score |->
            IF valid = <<>> \/ ~fetched[i].ok \/ fetched[i].slots = <<>> THEN <<>>
            ELSE <<score(fetched[i])>>]]

\* .sort((a, b) => b.bookability_score - a.bookability_score)
RECURSIVE sortByScore(_)
sortByScore(rows) ==
  IF rows = <<>> THEN <<>>
  ELSE LET rest == sortByScore(Tail(rows))
           before == SelectSeq(rest, LAMBDA r : r.bookability_score > Head(rows).bookability_score)
           after == SelectSeq(rest, LAMBDA r : r.bookability_score <= Head(rows).bookability_score)
       IN  before \o <<Head(rows)>> \o after

\* the rows computeRankings builds from the results
rankingRows(fetched) ==
  LET scored == SelectSeq(normalizeToScore(fetched), LAMBDA r : r.bookability_score # <<>>)
  IN  sortByScore([i \in DOMAIN scored |->
                     [name |-> scored[i].restaurant.name,
                      slug |-> scored[i].restaurant.slug,
                      bookability_score |-> scored[i].bookability_score[1],
                      available_slots |-> scored[i].slots[1],
                      rating |-> scored[i].restaurant.rating]])

\* the next restaurant of the feed that has a slug, 0 when there is none
nextWithSlug(restaurants, idx) ==
  LET later == {j \in DOMAIN restaurants : j > idx /\ restaurants[j].slug # ""}
  IN  IF later = {} THEN 0 ELSE CHOOSE j \in later : \A k \in later : j <= k

\* the controller before its first request
RankIdle ==
  /\ cachedRankings = <<>>
  /\ lastUpdated = 0
  /\ isComputing = FALSE
  /\ computing = <<>>
  /\ res = [request |-> "none", status |-> 0, rankings |-> <<>>]
  /\ lastGet = [attempts |-> 0, outcome |-> "none", value |-> Unsettled]

(***************************************************************************)
(* Initial state: the configuration read at start-up and a seeded table.   *)
(***************************************************************************)
\* mutant: --once ends the run after one batch whether or not --all is given
runContinuouslyFor_OnceWins(runOnceFlag, runAllFlag) == ~runOnceFlag

\* const runContinuously = runAllFlag || !runOnceFlag
runContinuouslyFor(runOnceFlag, runAllFlag) == runAllFlag \/ ~runOnceFlag

SeedChoices ==
  {c \in [RecIds -> DOMAIN SeedRows] : \A i, j \in RecIds : i < j => c[i] < c[j]}

Init ==
  /\ enrichmentStatusOptions \in
       {parseSelectOptions(v, DefaultStatusOptions) : v \in EnvStatusOptions}
  /\ refreshPhotos \in BOOLEAN
  /\ OPENAI_ENABLED \in BOOLEAN
  /\ runContinuously \in {runContinuouslyFor(once, all) : once \in BOOLEAN, all \in BOOLEAN}
  /\ maxPerBatch \in 1..Cardinality(RecIds)
  /\ table \in {[id \in RecIds |-> SeedRows[c[id]]] : c \in SeedChoices}
  /\ notesFieldAvailable = TRUE
  /\ pc = "fetch"
  /\ toProcess = <<>>
  /\ totalProcessed = 0
  /\ iteration = 0
  /\ placeId = <<>>
  /\ details = NoDetail
  /\ description = <<>>
  /\ payload = NoPayload
  /\ prepared = NoPayload
  /\ inCatch = FALSE
  /\ err = NoError
  /\ exitCode = 0
  /\ storeFaults = 0
  /\ FeedIdle
  /\ BackfillIdle
  /\ CallIdle
  /\ RankIdle

LegacyChoices ==
  {c \in [RecIds -> DOMAIN LegacyRows] : \A i, j \in RecIds : i < j => c[i] < c[j]}

\* the same start-up over a table of legacy rows
InitLegacy ==
  /\ enrichmentStatusOptions \in
       {parseSelectOptions(v, DefaultStatusOptions) : v \in EnvStatusOptions}
  /\ refreshPhotos \in BOOLEAN
  /\ OPENAI_ENABLED \in BOOLEAN
  /\ runContinuously \in {runContinuouslyFor(once, all) : once \in BOOLEAN, all \in BOOLEAN}
  /\ maxPerBatch \in 1..Cardinality(RecIds)
  /\ table \in {[id \in RecIds |-> LegacyRows[c[id]]] : c \in LegacyChoices}
  /\ notesFieldAvailable = TRUE
  /\ pc = "fetch"
  /\ toProcess = <<>>
  /\ totalProcessed = 0
  /\ iteration = 0
  /\ placeId = <<>>
  /\ details = NoDetail
  /\ description = <<>>
  /\ payload = NoPayload
  /\ prepared = NoPayload
  /\ inCatch = FALSE
  /\ err = NoError
  /\ exitCode = 0
  /\ storeFaults = 0
  /\ FeedIdle
  /\ BackfillIdle
  /\ CallIdle
  /\ RankIdle

(***************************************************************************)
(* Control transfers inside run().                                         *)
(***************************************************************************)
\* a rejection that reaches run().catch: process.exit(1)
Reject(e) ==
  /\ err' = e
  /\ pc' = "aborted"
  /\ exitCode' = 1
  /\ UNCHANGED <<payload, prepared, inCatch>>

\* mutant: the loop does not await the sleep before it takes up a record
Return_WithoutSleep ==
  /\ pc' = "enrich"
  /\ UNCHANGED <<payload, prepared, inCatch>>

\* enrichRecord returns; run() goes on to totalProcessed += 1 and the sleep
Return ==
  /\ pc' = "sleep"
  /\ UNCHANGED <<payload, prepared, inCatch>>

\* upsertBySlug -> performTableAction('update', ...): the request is prepared
IssueUpdate(fields, omitSlug, fromCatch) ==
  /\ payload' = upsertBySlug(Slug(rec.fields), fields, omitSlug)
  /\ prepared' = sanitizeOptionalFields(upsertBySlug(Slug(rec.fields), fields, omitSlug))
  /\ inCatch' = fromCatch
  /\ pc' = "update"

\* mutant: the handler writes the fallback fields whatever the record's status
Catch_AlwaysWrites(e) ==
  IF isAirtableNotFound(e) THEN Reject(e)
  ELSE /\ err' = e
       /\ exitCode' = exitCode
       /\ IssueUpdate(FallbackFields(rec.fields, e), FALSE, TRUE)

\* a fault thrown inside enrichRecord's try block: the catch handler, lines 572-590
Catch(e) ==
  IF isAirtableNotFound(e) THEN Reject(e)
  ELSE /\ err' = e
       /\ exitCode' = exitCode
       /\ IF isAlreadyEnriched(rec.fields) THEN Return
          ELSE IssueUpdate(FallbackFields(rec.fields, e), FALSE, TRUE)

\* a fault thrown by the awaited store call, in the try block or in the handler
ThrowFromWrite(e) == IF inCatch THEN Reject(e) ELSE Catch(e)

\* what the store may answer next: it rejects at most MaxStoreFaults requests
StoreAnswers(faults) ==
  {NoError} \cup (IF storeFaults < MaxStoreFaults THEN faults ELSE {})

StoreAnswered(answer) ==
  storeFaults' = IF answer = NoError THEN storeFaults ELSE storeFaults + 1

\* no fault: the step leaves err and the exit code alone
NoFault == UNCHANGED <<err, exitCode>>

\* enrichRecord lines 483-570, once details are in hand and the description is settled
Upsert(d, text) ==
  IF innerInitialised(533) /\ isAlreadyEnriched(rec.fields)
  THEN IssueUpdate(PhotoPatch(rec.fields, d), TRUE, FALSE)
  ELSE IssueUpdate(FullPayload(rec.fields, placeId, d, text), FALSE, FALSE)

(***************************************************************************)
(* Actions.                                                                *)
(***************************************************************************)
\* run(): const toProcess = await fetchPendingBatch(maxPerBatch)
FetchPendingBatch ==
  /\ pc = "fetch"
  /\ UNCHANGED <<feedVars, backfillVars, callVars, rankVars>>
  /\ iteration < MaxIterations
  /\ UNCHANGED <<config, table, totalProcessed, locals>>
  /\ \E answer \in StoreAnswers(SelectFaults) :
       /\ StoreAnswered(answer)
       /\ IF answer = NoError
          THEN LET collected == SelectFrom(1, maxPerBatch)
               IN  /\ toProcess' = collected
                   /\ iteration' = IF collected = <<>> THEN iteration ELSE iteration + 1
                   /\ pc' = IF collected = <<>> THEN "done" ELSE "enrich"
                   /\ UNCHANGED <<notesFieldAvailable, payload, prepared, inCatch>>
                   /\ NoFault
          ELSE IF /\ notesFieldAvailable
                  /\ answer.statusCode = 422
                  /\ answer.error = "INVALID_FILTER_BY_FORMULA"
                  /\ mentionsNotes(answer.message)
          THEN /\ notesFieldAvailable' = FALSE
               /\ UNCHANGED <<pc, toProcess, iteration, payload, prepared, inCatch>>
               /\ NoFault
          ELSE /\ Reject(answer)
               /\ UNCHANGED <<notesFieldAvailable, toProcess, iteration>>

\* enrichRecord(rec) up to its first await
EnrichRecord ==
  /\ pc = "enrich"
  /\ UNCHANGED <<feedVars, backfillVars, callVars, rankVars>>
  /\ UNCHANGED <<config, storeFaults, table, notesFieldAvailable, toProcess, totalProcessed,
                 iteration, details, description, exitCode>>
  /\ err' = NoError
  /\ IF clean(rec.fields["Name"]) = <<>>
     THEN /\ Return
          /\ UNCHANGED placeId
     ELSE /\ placeId' = clean(rec.fields["Place ID"])
          /\ pc' = IF needsLookup(rec.fields) THEN "lookup" ELSE "details"
          /\ UNCHANGED <<payload, prepared, inCatch>>

\* placeId = await findPlaceIdByText(name)
FindPlaceIdByText ==
  /\ pc = "lookup"
  /\ UNCHANGED <<feedVars, backfillVars, callVars, rankVars>>
  /\ UNCHANGED <<config, storeFaults, table, notesFieldAvailable, toProcess, totalProcessed,
                 iteration, details, description>>
  /\ \E answer \in {"place_id", "null", "throws"} :
       IF answer = "place_id"
       THEN /\ placeId' \in PlaceIds
            /\ pc' = "details"
            /\ UNCHANGED <<payload, prepared, inCatch>>
            /\ NoFault
       ELSE /\ UNCHANGED placeId
            /\ IF answer = "throws" THEN Catch(ProviderFault)
               ELSE IF ~innerInitialised(447) THEN Catch(ReferenceError)
               ELSE IF isAlreadyEnriched(rec.fields) THEN Return /\ NoFault
               ELSE IssueUpdate(NotFoundFields(rec.fields), FALSE, FALSE) /\ NoFault

\* const details = await getPlaceDetails(placeId), and the synchronous code
\* after it up to the next await
GetPlaceDetails ==
  /\ pc = "details"
  /\ UNCHANGED <<feedVars, backfillVars, callVars, rankVars>>
  /\ UNCHANGED <<config, storeFaults, table, notesFieldAvailable, toProcess, totalProcessed,
                 iteration, placeId>>
  /\ \E answer \in {"result", "null", "throws"} :
       IF answer = "result"
       THEN LET d == DetailsOf(placeId)
            IN
              /\ details' = d
              /\ description' = clean(rec.fields["Description"])
              /\ NoFault
              /\ IF clean(rec.fields["Description"]) = <<>> /\ OPENAI_ENABLED
                 THEN pc' = "describe" /\ UNCHANGED <<payload, prepared, inCatch>>
                 ELSE Upsert(d, clean(rec.fields["Description"]))
       ELSE /\ UNCHANGED <<details, description>>
            /\ IF answer = "throws" THEN Catch(ProviderFault)
               ELSE IF ~innerInitialised(466) THEN Catch(ReferenceError)
               ELSE IF isAlreadyEnriched(rec.fields) THEN Return /\ NoFault
               ELSE IssueUpdate(NoDetailsFields(rec.fields, placeId), FALSE, FALSE) /\ NoFault

\* description = await generateDescription(...): the provider's text, or ''
\* when the request fails
GenerateDescription ==
  /\ pc = "describe"
  /\ UNCHANGED <<feedVars, backfillVars, callVars, rankVars>>
  /\ UNCHANGED <<config, storeFaults, table, notesFieldAvailable, toProcess, totalProcessed,
                 iteration, placeId, details>>
  /\ NoFault
  /\ \E text \in GeneratedTexts \cup {<<>>} :
       /\ description' = clean(text)
       /\ Upsert(details, clean(text))

\* performTableAction: await table.update(prepared)
TableUpdate ==
  /\ pc = "update"
  /\ UNCHANGED <<feedVars, backfillVars, callVars, rankVars>>
  /\ UNCHANGED <<config, toProcess, totalProcessed, iteration, locals>>
  /\ \E answer \in StoreAnswers(WriteFaults) :
       /\ StoreAnswered(answer)
       /\ IF answer = NoError
          THEN /\ table' = Updated(upsertRecordId(Slug(rec.fields), rec.id), prepared)
               /\ Return
               /\ NoFault
               /\ UNCHANGED notesFieldAvailable
          ELSE IF isMissingNotesFieldError(answer)
          THEN /\ notesFieldAvailable' = FALSE
               /\ prepared' = [f \in DOMAIN prepared \ {"Notes"} |-> prepared[f]]
               /\ pc' = "retry"
               /\ NoFault
               /\ UNCHANGED <<table, payload, inCatch>>
          ELSE /\ ThrowFromWrite(answer)
               /\ UNCHANGED <<table, notesFieldAvailable>>

\* performTableAction: return await table.update(retried)
TableUpdateRetry ==
  /\ pc = "retry"
  /\ UNCHANGED <<feedVars, backfillVars, callVars, rankVars>>
  /\ UNCHANGED <<config, toProcess, totalProcessed, iteration, locals, notesFieldAvailable>>
  /\ \E answer \in StoreAnswers(WriteFaults) :
       /\ StoreAnswered(answer)
       /\ IF answer = NoError
          THEN /\ table' = Updated(upsertRecordId(Slug(rec.fields), rec.id), prepared)
               /\ Return
               /\ NoFault
          ELSE /\ ThrowFromWrite(answer)
               /\ UNCHANGED table

\* run(): totalProcessed += 1; await sleep(...); next record, next batch or the end
Sleep ==
  /\ pc = "sleep"
  /\ UNCHANGED <<feedVars, backfillVars, callVars, rankVars>>
  /\ UNCHANGED <<config, storeFaults, table, notesFieldAvailable, iteration, exitCode>>
  /\ err' = NoError
  /\ totalProcessed' = totalProcessed + 1
  /\ toProcess' = Tail(toProcess)
  /\ placeId' = <<>>
  /\ details' = NoDetail
  /\ description' = <<>>
  /\ payload' = NoPayload
  /\ prepared' = NoPayload
  /\ inCatch' = FALSE
  /\ pc' = IF Tail(toProcess) # <<>> THEN "enrich"
           ELSE IF runContinuously THEN "fetch" ELSE "done"

\* the outbound call that a step taken at each of these positions awaits
awaitedCall ==
  [fetch |-> "table.select", lookup |-> "axios.get place/textsearch",
   details |-> "axios.get place/details", describe |-> "axios.post chat/completions",
   update |-> "table.update", retry |-> "table.update"]

\* the calls that are handed to limiter.schedule(() => ...)
limiterScheduled ==
  {"axios.get place/textsearch", "axios.get place/details", "axios.post chat/completions"}

Next ==
  \/ FetchPendingBatch
  \/ EnrichRecord
  \/ FindPlaceIdByText
  \/ GetPlaceDetails
  \/ GenerateDescription
  \/ TableUpdate
  \/ TableUpdateRetry
  \/ Sleep

Spec == Init /\ [][Next]_vars

\* the same engine over a table of legacy rows
SpecLegacy == InitLegacy /\ [][Next]_vars

(***************************************************************************)
(* Two runs on one table.  The engine takes no lock and keeps no queue, so *)
(* a second run of the same program with the same configuration may work   *)
(* on the records of this run's batch.  Its pass over one record is taken  *)
(* as a single step: its fetchPendingBatch selected the record, its lookup *)
(* and details fetch answered, it generated no description, and the store  *)
(* accepted its full merged write.  The steps kept are those that fall     *)
(* while this run holds the record in the batch it fetched.                *)
(***************************************************************************)
ConcurrentRunEnriches(id) ==
  /\ pc \in {"enrich", "lookup", "details", "describe", "update", "retry"}
  /\ \E i \in DOMAIN toProcess : toProcess[i].id = id
  /\ Filter(table[id])
  /\ clean(table[id]["Name"]) # <<>>
  /\ ~isAlreadyEnriched(table[id])
  /\ \E pid \in IF needsLookup(table[id]) THEN PlaceIds
                ELSE {clean(table[id]["Place ID"])} :
       LET row == table[id]
           fields == FullPayload(row, pid, DetailsOf(pid), clean(row["Description"]))
       IN  table' = Updated(upsertRecordId(Slug(row), id),
                            sanitizeOptionalFields(upsertBySlug(Slug(row), fields, FALSE)))
  /\ table' # table
  /\ UNCHANGED <<config, notesFieldAvailable, pc, toProcess, totalProcessed, iteration,
                 locals, payload, prepared, inCatch, err, exitCode, storeFaults>>
  /\ UNCHANGED <<feedVars, backfillVars, callVars, rankVars>>

\* both runs started with the default status options, without
\* --refresh-photos, and with a batch size that takes in the whole table
InitTwoRuns ==
  /\ enrichmentStatusOptions = parseSelectOptions(<<>>, DefaultStatusOptions)
  /\ refreshPhotos = FALSE
  /\ OPENAI_ENABLED \in BOOLEAN
  /\ runContinuously \in {runContinuouslyFor(once, all) : once \in BOOLEAN, all \in BOOLEAN}
  /\ maxPerBatch = Cardinality(RecIds)
  /\ table \in {[id \in RecIds |-> SeedRows[c[id]]] : c \in SeedChoices}
  /\ notesFieldAvailable = TRUE
  /\ pc = "fetch"
  /\ toProcess = <<>>
  /\ totalProcessed = 0
  /\ iteration = 0
  /\ placeId = <<>>
  /\ details = NoDetail
  /\ description = <<>>
  /\ payload = NoPayload
  /\ prepared = NoPayload
  /\ inCatch = FALSE
  /\ err = NoError
  /\ exitCode = 0
  /\ storeFaults = 0
  /\ FeedIdle
  /\ BackfillIdle
  /\ CallIdle
  /\ RankIdle

NextTwoRuns ==
  \/ Next
  \/ \E id \in RecIds : ConcurrentRunEnriches(id)

SpecTwoRuns == InitTwoRuns /\ [][NextTwoRuns]_vars

(***************************************************************************)
(* The JSON feed: one step per await of fetchRestaurants.                  *)
(***************************************************************************)
InitFeed == EngineIdle /\ FeedIdle /\ BackfillIdle /\ CallIdle /\ RankIdle

\* time passes
Tick ==
  /\ clock < MaxClock
  /\ clock' = clock + 1
  /\ UNCHANGED <<engineVars, backfillVars, callVars, rankVars, cache, storeVersion, requests>>

\* the engine or an operator changes the table
TableEdited ==
  /\ storeVersion < MaxEdits
  /\ storeVersion' = storeVersion + 1
  /\ UNCHANGED <<engineVars, backfillVars, callVars, rankVars, cache, clock, requests>>

\* fetchRestaurants(forceRefresh) up to its return or its await, lines 155-164
FetchRestaurants(r) ==
  /\ requests[r].phase = "idle"
  /\ UNCHANGED <<engineVars, backfillVars, callVars, rankVars, cache, clock, storeVersion>>
  /\ \E forceRefresh \in BOOLEAN :
       LET now == clock
       IN  IF cacheFresh(forceRefresh, now)
           THEN requests' =
                  [requests EXCEPT ![r] =
                     [phase |-> "responded", forceRefresh |-> forceRefresh,
                      records |-> NoData,
                      result |-> [data |-> cache.data, fetchedAt |-> cache.fetchedAt,
                                  cached |-> TRUE],
                      at |-> now]]
           ELSE requests' =
                  [requests EXCEPT ![r] =
                     [NoRequest EXCEPT !.phase = "reading", !.forceRefresh = forceRefresh]]

\* table.select({ sort }).all(): the store answers with what it holds, or
\* the call rejects and the route answers 500
TableSelectAll(r) ==
  /\ requests[r].phase = "reading"
  /\ UNCHANGED <<engineVars, backfillVars, callVars, rankVars, cache, clock, storeVersion>>
  /\ \E ok \in BOOLEAN :
       requests' =
         [requests EXCEPT ![r] =
            IF ok THEN [@ EXCEPT !.phase = "read", !.records = <<storeVersion>>]
            ELSE [@ EXCEPT !.phase = "failed", !.at = clock]]

\* fetchRestaurants lines 166-168: the await returns, the cache is replaced
ReplaceCache(r) ==
  /\ requests[r].phase = "read"
  /\ UNCHANGED <<engineVars, backfillVars, callVars, rankVars, clock, storeVersion>>
  /\ cache' = [data |-> requests[r].records, fetchedAt |-> clock]
  /\ requests' =
       [requests EXCEPT ![r] =
          [@ EXCEPT !.phase = "responded",
                    !.result = [data |-> requests[r].records, fetchedAt |-> clock,
                                cached |-> FALSE],
                    !.at = clock]]

\* the route has sent its response: the slot is free for the next request
ResponseSent(r) ==
  /\ requests[r].phase \in {"responded", "failed"}
  /\ requests' = [requests EXCEPT ![r] = NoRequest]
  /\ UNCHANGED <<engineVars, backfillVars, callVars, rankVars, cache, clock, storeVersion>>

NextFeed ==
  \/ Tick
  \/ TableEdited
  \/ \E r \in ReqIds : FetchRestaurants(r)
  \/ \E r \in ReqIds : TableSelectAll(r)
  \/ \E r \in ReqIds : ReplaceCache(r)
  \/ \E r \in ReqIds : ResponseSent(r)

SpecFeed == InitFeed /\ [][NextFeed]_vars

(***************************************************************************)
(* The profile-link backfill: run() of src/scripts/update_from_main.sh.    *)
(***************************************************************************)
InitBackfill ==
  /\ EngineIdle
  /\ FeedIdle
  /\ CallIdle
  /\ RankIdle
  /\ forceRecheck \in BOOLEAN
  /\ records \in BackfillTables
  /\ step = "select"
  /\ examined = 0
  /\ skipped = 0
  /\ updatedCount = 0
  /\ instagramCache = NoCache
  /\ updates = <<>>
  /\ lookup = NoLookup
  /\ response = NoAnswer
  /\ invocations = <<>>
  /\ written = <<>>

NoFields == [f \in {} |-> <<>>]

\* the record the loop body is working on
record == records[examined]
website == record.fields["Website"]
existingStatusRaw == trim(record.fields["Instagram Status"])

\* where run() goes after a record's body, which left newUpdates to be written
AfterRecord(newUpdates, count) ==
  IF Len(newUpdates) >= FlushSize THEN "flush"
  ELSE IF count < Len(records) THEN "examine"
  ELSE "finish"

\* lines 208-237: the body from the test of instagramUrl on
ApplyLookup(instagramUrl, lookupStatus, row) ==
  LET status == trim(row.fields["Instagram Status"])
      desiredStatus ==
        pickInstagramStatus(IF lookupStatus = "error" THEN error ELSE not_found,
                            status, instagramStatusOptions)
      picked == pickInstagramStatus(found, status, instagramStatusOptions)
  IN  IF instagramUrl = <<>>
      THEN IF desiredStatus # Undefined /\ desiredStatus # status
           THEN Append(updates, [id |-> row.id,
                                 fields |-> ("Instagram Status" :> desiredStatus)])
           ELSE updates
      ELSE Append(updates,
                  [id |-> row.id,
                   fields |-> ("Instagram" :> instagramUrl)
                              @@ (IF picked # Undefined
                                  THEN ("Instagram Status" :> picked) ELSE NoFields)])

\* const records = await table.select().all(); a failure ends run()
SelectAllRecords ==
  /\ step = "select"
  /\ \E ok \in BOOLEAN : step' = IF ~ok THEN "fatal"
                                 ELSE IF records = <<>> THEN "finish" ELSE "examine"
  /\ UNCHANGED <<engineVars, feedVars, callVars, rankVars, forceRecheck, records, examined, skipped,
                 updatedCount, instagramCache, updates, lookup, response,
                 invocations, written>>

\* lines 152-206: the loop body up to the call of findInstagramProfile
ExamineRecord ==
  /\ step = "examine"
  /\ examined' = examined + 1
  /\ LET row == records[examined + 1]
         site == row.fields["Website"]
         status == trim(row.fields["Instagram Status"])
         existingInstagramRaw == trim(row.fields["Instagram"])
         existingInstagram == normalizeInstagramProfileUrl(existingInstagramRaw)
         foundStatus == pickInstagramStatus(found, status, instagramStatusOptions)
         missingStatus == pickInstagramStatus(not_found, status, instagramStatusOptions)
         patchFields ==
           (IF existingInstagram # existingInstagramRaw
            THEN ("Instagram" :> existingInstagram) ELSE NoFields)
           @@ (IF foundStatus # Undefined /\ foundStatus # status
               THEN ("Instagram Status" :> foundStatus) ELSE NoFields)
         cached == IF site \in DOMAIN instagramCache THEN instagramCache[site]
                   ELSE NoLookup
     IN  IF existingInstagram # <<>> /\ ~forceRecheck
         THEN /\ updates' = IF DOMAIN patchFields # {}
                            THEN Append(updates, [id |-> row.id, fields |-> patchFields])
                            ELSE updates
              /\ skipped' = skipped + 1
              /\ step' = AfterRecord(updates', examined + 1)
              /\ UNCHANGED invocations
         ELSE IF site = <<>>
         THEN /\ updates' = IF missingStatus # Undefined /\ missingStatus # status
                            THEN Append(updates,
                                        [id |-> row.id,
                                         fields |-> ("Instagram Status" :> missingStatus)])
                            ELSE updates
              /\ skipped' = skipped + 1
              /\ step' = AfterRecord(updates', examined + 1)
              /\ UNCHANGED invocations
         ELSE IF cached.url = <<>> \/ forceRecheck
         THEN /\ invocations' = Append(invocations, site)
              /\ step' = "lookup"
              /\ UNCHANGED <<updates, skipped>>
         ELSE /\ updates' = ApplyLookup(cached.url, cached.status, row)
              /\ step' = AfterRecord(updates', examined + 1)
              /\ UNCHANGED <<invocations, skipped>>
  /\ UNCHANGED <<engineVars, feedVars, callVars, rankVars, forceRecheck, records, updatedCount,
                 instagramCache, lookup, response, written>>

\* lines 197-237: the call of findInstagramProfile settles; a rejection ends
\* run(), a value is cached and the body goes on
FindInstagramProfile ==
  /\ step = "lookup"
  /\ response' \in IF requestMade(website) THEN NetAnswers ELSE {NoAnswer}
  /\ lookup' = findInstagramProfile(website, response')
  /\ IF lookup'.settled = "rejected"
     THEN /\ step' = "fatal"
          /\ UNCHANGED <<instagramCache, updates>>
     ELSE /\ instagramCache' = (website :> lookup') @@ instagramCache
          /\ updates' = ApplyLookup(lookup'.url, lookup'.status, record)
          /\ step' = AfterRecord(updates', examined)
  /\ UNCHANGED <<engineVars, feedVars, callVars, rankVars, forceRecheck, records, examined, skipped,
                 updatedCount, invocations, written>>

\* updatedCount += await flushUpdates(updates, console), in the loop and
\* after it
FlushUpdates ==
  /\ step \in {"flush", "finish"}
  /\ LET n == IF Len(updates) < FlushSize THEN Len(updates) ELSE FlushSize
         batch == SubSeq(updates, 1, n)
     IN  /\ updates' = SubSeq(updates, n + 1, Len(updates))
         /\ \E ok \in (IF updates = <<>> THEN {FALSE} ELSE BOOLEAN) :
              /\ written' = IF ok THEN written \o batch ELSE written
              /\ updatedCount' = IF ok THEN updatedCount + n ELSE updatedCount
  /\ step' = IF step = "finish" THEN "done"
             ELSE IF examined < Len(records) THEN "examine"
             ELSE "finish"
  /\ UNCHANGED <<engineVars, feedVars, callVars, rankVars, forceRecheck, records, examined, skipped,
                 instagramCache, lookup, response, invocations>>

NextBackfill ==
  \/ SelectAllRecords
  \/ ExamineRecord
  \/ FindInstagramProfile
  \/ FlushUpdates

SpecBackfill == InitBackfill /\ [][NextBackfill]_vars

(***************************************************************************)
(* Pure functions, called on inputs drawn from bounded sets.               *)
(***************************************************************************)
\* a call without options.precision
NoPrecision == -1

\* the largest precision tried besides the one enrichRecord uses
MaxPrecision == 2

Precisions == {NoPrecision, CoordinatePrecision} \cup 0..MaxPrecision

\* values the numeric helpers may be handed, each with the number a reader
\* of the value takes it for (<<>>: none)
NumericCases ==
  { [value |-> <<>>, number |-> <<>>],
    [value |-> Text(<<>>), number |-> <<>>],
    [value |-> Text(<<" ", " ">>), number |-> <<>>],
    [value |-> Text(<<"n", "/", "a">>), number |-> <<>>],
    [value |-> Text(<<"I", "n", "f", "i", "n", "i", "t", "y">>), number |-> <<>>],
    [value |-> NaN, number |-> <<>>],
    [value |-> Infinity, number |-> <<>>],
    [value |-> Text(<<" ", "5", "1", ".", "5", "0", " ">>),
     number |-> <<Num(FALSE, 51, <<5>>)>>],
    [value |-> Text(<<"-", "0", ".", "1", "2", "5">>),
     number |-> <<Num(TRUE, 0, <<1, 2, 5>>)>>],
    [value |-> Text(<<"1", "2", "k", "m">>), number |-> <<Num(FALSE, 12, <<>>)>>],
    [value |-> <<Num(TRUE, 2, <<5>>)>>, number |-> <<Num(TRUE, 2, <<5>>)>>],
    [value |-> <<Num(FALSE, 0, <<9, 9, 5>>)>>, number |-> <<Num(FALSE, 0, <<9, 9, 5>>)>>],
    [value |-> <<Num(FALSE, 51, <<1, 2, 3, 4, 5, 6, 7, 8, 9>>)>>,
     number |-> <<Num(FALSE, 51, <<1, 2, 3, 4, 5, 6, 7, 8, 9>>)>>] }

\* doubles that coerceNumericField may be rounding: 36894956463022.766,
\* -39718956033582.664, 51.123456789, 0.995, -2.5 and 180
Doubles ==
  { Binary64(FALSE, 17592886, 25750449, -6),
    Binary64(TRUE, 37878948, 32708437, -7),
    Binary64(FALSE, 26803414, 122539609, -46),
    Binary64(FALSE, 66773319, 91268055, -53),
    Binary64(TRUE, 0, 5, -1),
    Binary64(FALSE, 0, 45, 2) }

(***************************************************************************)
(* The skip note of the profile-link backfill (src/lib/instagram.js and    *)
(* the backfill script that reads --force).                                *)
(***************************************************************************)
INSTAGRAM_SKIP_SENTINEL == <<"[", "i", "n", "s", "t", "a", "g", "r", "a", "m", "-", "s", "k", "i", "p", "]">>

\* String.prototype.includes and startsWith
includes(text, part) ==
  \E i \in 1..(Len(text) - Len(part) + 1) : SubSeq(text, i, i + Len(part) - 1) = part

startsWith(text, part) ==
  Len(part) <= Len(text) /\ SubSeq(text, 1, Len(part)) = part

\* text.split(/\r?\n/)
splitLines(text) ==
  LET breaks == {i \in DOMAIN text : text[i] = "\n"}
      \* the k-th line break, Len(text) + 1 after the last one
      break(k) == IF k > Cardinality(breaks) THEN Len(text) + 1
                  ELSE CHOOSE b \in breaks : Cardinality({x \in breaks : x < b}) = k - 1
      from(k) == IF k = 1 THEN 1 ELSE break(k - 1) + 1
      upto(k) == IF break(k) <= Len(text) /\ break(k) > from(k) /\ text[break(k) - 1] = "\r"
                 THEN break(k) - 2 ELSE break(k) - 1
  IN  [k \in 1..(Cardinality(breaks) + 1) |-> SubSeq(text, from(k), upto(k))]

\* lines.join('\n')
RECURSIVE joinLines(_)
joinLines(lines) ==
  IF lines = <<>> THEN <<>>
  ELSE IF Len(lines) = 1 THEN lines[1]
  ELSE lines[1] \o <<"\n">> \o joinLines(Tail(lines))

\* .split(/\r?\n/).map((line) => line.trim()).filter(Boolean)
trimmedLines(text) ==
  SelectSeq([k \in DOMAIN splitLines(text) |-> trim(splitLines(text)[k])],
            LAMBDA line : line # <<>>)

hasInstagramSkipNote(notes) == includes(notes, INSTAGRAM_SKIP_SENTINEL)

removeInstagramSkipNote(notes) ==
  joinLines(SelectSeq(trimmedLines(notes),
                      LAMBDA line : ~startsWith(line, INSTAGRAM_SKIP_SENTINEL)))

addInstagramSkipNote(notes, reason) ==
  LET existing == trim(notes)
      suffix == IF reason # <<>> THEN <<" ">> \o reason ELSE <<>>
      entry == trim(INSTAGRAM_SKIP_SENTINEL \o suffix)
  IN  IF includes(existing, INSTAGRAM_SKIP_SENTINEL) THEN existing
      ELSE IF existing # <<>> THEN existing \o <<"\n">> \o entry
      ELSE entry

\* the backfill script: normalizeNotes and ensureNewlineSeparated
normalizeNotes(value) == trim(value)

ensureNewlineSeparated(value) == joinLines(trimmedLines(value))

\* shouldSkip(record), for a record that has fields
shouldSkip(fields, force) ==
  \/ clean(fields["Website"]) = <<>>
  \/ ~force /\ clean(fields["Instagram"]) # <<>>
  \/ ~force /\ hasInstagramSkipNote(fields["Notes"])

\* Notes texts without the sentinel, each with its trimmed non-empty lines
NotesCases ==
  { [notes |-> <<>>, lines |-> <<>>],
    [notes |-> <<" ", " ">>, lines |-> <<>>],
    [notes |-> <<"c", "l", "o", "s", "e", "d", " ", "m", "o", "n">>, lines |-> <<<<"c", "l", "o", "s", "e", "d", " ", "m", "o", "n">>>>],
    [notes |-> <<" ", "a", " ", "\r", "\n", "\n", " ", "b">>, lines |-> <<<<"a">>, <<"b">>>>],
    [notes |-> <<"x", "\n">>, lines |-> <<<<"x">>>>] }

\* reasons: missing, a message, a blank, and a message of two lines
Reasons ==
  { <<>>,
    <<"n", "o", "n", "e">>,
    <<" ">>,
    <<"l", "a", "t", "e", "r", "\n", "t", "r", "y", " ", "x">> }

(***************************************************************************)
(* The prompt of a description: hashString and selectDescriptionPrompt.     *)
(***************************************************************************)
\* the printable characters, in the order of their codes from 32 to 126
\* (the grave accent, code 96, by its name)
Ascii ==
  << " ", "!", "\"", "#", "$", "%", "&", "'", "(", ")", "*", "+",
     ",", "-", ".", "/", "0", "1", "2", "3", "4", "5", "6", "7",
     "8", "9", ":", ";", "<", "=", ">", "?", "@", "A", "B", "C",
     "D", "E", "F", "G", "H", "I", "J", "K", "L", "M", "N", "O",
     "P", "Q", "R", "S", "T", "U", "V", "W", "X", "Y", "Z", "[",
     "\\", "]", "^", "_", "grave", "a", "b", "c", "d", "e", "f", "g",
     "h", "i", "j", "k", "l", "m", "n", "o", "p", "q", "r", "s",
     "t", "u", "v", "w", "x", "y", "z", "{", "|", "}", "~" >>

\* value.charCodeAt(i)
charCodeAt(value, i) == 31 + CHOOSE k \in DOMAIN Ascii : Ascii[k] = value[i]

\* a 32-bit integer as its two halves of 16 binary digits, two's complement
Int32(hi, lo) == [hi |-> hi, lo |-> lo]

\* hash = (hash << 5) - hash + code; hash |= 0, that is 31 * hash + code
\* wrapped to 32 binary digits
hashStep(hash, code) ==
  LET lo == hash.lo * 31 + code
      hi == hash.hi * 31 + (lo \div 65536)
  IN  Int32(hi % 65536, lo % 65536)

\* the number a 32-bit integer stands for, as sign and magnitude: the
\* magnitude of -2^31 is 2^31
signed(hash) ==
  IF hash.hi < 32768 THEN [neg |-> FALSE, hi |-> hash.hi, lo |-> hash.lo]
  ELSE [neg |-> TRUE,
        hi |-> 65535 - hash.hi + (IF hash.lo = 0 THEN 1 ELSE 0),
        lo |-> (65536 - hash.lo) % 65536]

\* the loop of hashString
RECURSIVE hashLoop(_, _, _)
hashLoop(value, i, hash) ==
  IF i > Len(value) THEN hash
  ELSE hashLoop(value, i + 1, hashStep(hash, charCodeAt(value, i)))

\* mutant: the hash is returned with its sign
hashString_Signed(value) == signed(hashLoop(value, 1, Int32(0, 0)))

\* hashString(value): Math.abs of the wrapped hash, 0 for an empty value
hashString(value) ==
  [signed(hashLoop(value, 1, Int32(0, 0))) EXCEPT !.neg = FALSE]

\* number % divisor for a small divisor: the sign is that of the number
remainder(number, divisor) ==
  LET r == ((number.hi % divisor) * (65536 % divisor) + (number.lo % divisor)) % divisor
  IN  IF number.neg THEN 0 - r ELSE r

\* the prompt templates, by what they ask for
descriptionPromptTemplates == <<"featurette", "editorial blurb", "mini-review">>

\* selectDescriptionPrompt(info): the index and the template chosen; an
\* index outside the array gives undefined, and calling it throws
selectDescriptionPrompt(info) ==
  LET key == info.slug \o <<":">> \o info.name
      index == remainder(hashString(key), Len(descriptionPromptTemplates))
  IN  [index |-> index,
       template |-> IF index + 1 \in DOMAIN descriptionPromptTemplates
                    THEN descriptionPromptTemplates[index + 1] ELSE "TypeError"]

\* slug and name of a record (<<>> when missing), with the remainder of the
\* 32-bit hash of slug:name by 3, worked out by hand: the hashes are 58,
\* 279803431, -289970996, -488678844, -2147483648, 1946477423 and 542833906
PromptCases ==
  { [slug |-> <<>>, name |-> <<>>, index |-> 1],
    [slug |-> <<"c", "a", "f", "e", "-", "x">>, name |-> <<"C", "a", "f", "e", " ", "X">>, index |-> 1],
    [slug |-> <<"d", "i", "s", "h", "o", "o", "m">>, name |-> <<"D", "i", "s", "h", "o", "o", "m">>, index |-> 2],
    [slug |-> <<"p", "a", "d", "e", "l", "l", "a">>, name |-> <<"P", "a", "d", "e", "l", "l", "a">>, index |-> 0],
    [slug |-> <<"a", "t", "h", "p">>, name |-> <<"i", "q", "j", "c">>, index |-> 2],
    [slug |-> <<>>, name |-> <<"C", "a", "f", "e", " ", "X">>, index |-> 2],
    [slug |-> <<"c", "a", "f", "e", "-", "x">>, name |-> <<>>, index |-> 1] }

NumericArgs ==
  [incoming : NumericCases, fallback : NumericCases, precision : Precisions]

InitCalls ==
  /\ EngineIdle
  /\ FeedIdle
  /\ BackfillIdle
  /\ RankIdle
  /\ results = <<>>
  /\ \/ fn = "coerceNumericField" /\ args \in NumericArgs
     \/ fn = "roundToPrecision" /\ args \in [value : Doubles, precision : Precisions \ {NoPrecision}]
     \/ fn = "selectDescriptionPrompt" /\ args \in PromptCases
     \/ fn = "addInstagramSkipNote" /\ args \in [note : NotesCases, reason : Reasons]

\* coerceNumericField(incoming, fallback, fieldName, { precision })
CoerceNumericField ==
  /\ fn = "coerceNumericField"
  /\ results = <<>>
  /\ results' = <<coerceNumericField(args.incoming.value, args.fallback.value,
                                     args.precision)>>
  /\ UNCHANGED <<engineVars, feedVars, backfillVars, rankVars, fn, args>>

\* coerceNumericField on a number, with a precision: roundToPrecision
RoundToPrecision ==
  /\ fn = "roundToPrecision"
  /\ results = <<>>
  /\ results' = <<roundToPrecision64(args.value, args.precision)>>
  /\ UNCHANGED <<engineVars, feedVars, backfillVars, rankVars, fn, args>>

\* the number returned is passed in again with the same precision
RoundToPrecisionAgain ==
  /\ fn = "roundToPrecision"
  /\ Len(results) = 1
  /\ results' = Append(results, roundToPrecision64(results[1], args.precision))
  /\ UNCHANGED <<engineVars, feedVars, backfillVars, rankVars, fn, args>>

\* selectDescriptionPrompt(info), called once and then again
SelectDescriptionPrompt ==
  /\ fn = "selectDescriptionPrompt"
  /\ Len(results) < 2
  /\ results' = Append(results, selectDescriptionPrompt(args))
  /\ UNCHANGED <<engineVars, feedVars, backfillVars, rankVars, fn, args>>

\* addInstagramSkipNote(notes, reason), and once more on what it returned
AddInstagramSkipNote ==
  /\ fn = "addInstagramSkipNote"
  /\ Len(results) < 2
  /\ results' = Append(results,
                       addInstagramSkipNote(IF results = <<>> THEN args.note.notes
                                            ELSE results[1], args.reason))
  /\ UNCHANGED <<engineVars, feedVars, backfillVars, rankVars, fn, args>>

\* removeInstagramSkipNote of what the first call returned
RemoveInstagramSkipNote ==
  /\ fn = "addInstagramSkipNote"
  /\ Len(results) = 2
  /\ results' = Append(results, removeInstagramSkipNote(results[1]))
  /\ UNCHANGED <<engineVars, feedVars, backfillVars, rankVars, fn, args>>

NextCalls ==
  \/ CoerceNumericField
  \/ RoundToPrecision
  \/ RoundToPrecisionAgain
  \/ SelectDescriptionPrompt
  \/ AddInstagramSkipNote
  \/ RemoveInstagramSkipNote

SpecCalls == InitCalls /\ [][NextCalls]_vars

(***************************************************************************)
(* The bookability rankings: the two request handlers, and one step per    *)
(* await of computeRankings and of safeGet.  The handlers do not await the *)
(* computation they start, so a request is one step.                       *)
(***************************************************************************)
InitRanking == EngineIdle /\ FeedIdle /\ BackfillIdle /\ CallIdle /\ RankIdle

\* computeRankings up to its first await: the fetch of the feed is under way
Started ==
  [pc |-> "feed", restaurants |-> <<>>, idx |-> 0, results |-> <<>>,
   retries |-> 0, attempts |-> 0, answer |-> Unsettled]

\* computeRankings(): it returns at once when isComputing is set
InvokeComputeRankings ==
  /\ isComputing \/ lastUpdated < MaxRuns
  /\ isComputing' = TRUE
  /\ computing' = IF isComputing THEN computing ELSE Append(computing, Started)

\* the invocation leaves the ones under way
Without(i) == SubSeq(computing, 1, i - 1) \o SubSeq(computing, i + 1, Len(computing))

Answer(request, status, rankings) ==
  res' = [request |-> request, status |-> status, rankings |-> rankings]

\* mutant: a refresh is never turned down
refreshBusy_Never == FALSE

\* refreshRankings: if (isComputing) return res.status(429)
refreshBusy == isComputing

\* GET /rankings/refresh
RefreshRankings ==
  /\ UNCHANGED <<engineVars, feedVars, backfillVars, callVars>>
  /\ UNCHANGED <<cachedRankings, lastUpdated, lastGet>>
  /\ IF refreshBusy
     THEN /\ Answer("refresh", 429, <<>>)
          /\ UNCHANGED <<isComputing, computing>>
     ELSE /\ InvokeComputeRankings
          /\ Answer("refresh", 202, <<>>)

\* GET /rankings
GetRankings ==
  /\ UNCHANGED <<engineVars, feedVars, backfillVars, callVars>>
  /\ UNCHANGED <<cachedRankings, lastUpdated, lastGet>>
  /\ IF cachedRankings = <<>>
     THEN /\ IF ~isComputing THEN InvokeComputeRankings
                             ELSE UNCHANGED <<isComputing, computing>>
          /\ Answer("get", 202, <<>>)
     ELSE /\ UNCHANGED <<isComputing, computing>>
          /\ IF isComputing THEN Answer("get", 202, <<>>)
                            ELSE Answer("get", 200, cachedRankings[1])

\* the end of computeRankings: the rows are cached and the flag is cleared
Finish(i, fetched) ==
  /\ cachedRankings' = <<rankingRows(fetched)>>
  /\ lastUpdated' = lastUpdated + 1
  /\ isComputing' = FALSE
  /\ computing' = Without(i)

\* safeGet(url) is called for the restaurant at idx: the first axios.get
CallSafeGet(i, restaurants, idx, fetched) ==
  computing' = [computing EXCEPT ![i] =
                  [pc |-> "get", restaurants |-> restaurants, idx |-> idx,
                   results |-> fetched, retries |-> DefaultRetries, attempts |-> 1,
                   answer |-> Unsettled]]

\* await fetchRestaurants() throws: computeRankings rejects, and the
\* handler's .catch(console.error) logs it
FeedFails(i) ==
  /\ computing[i].pc = "feed"
  /\ computing' = Without(i)
  /\ UNCHANGED <<engineVars, feedVars, backfillVars, callVars>>
  /\ UNCHANGED <<cachedRankings, lastUpdated, isComputing, res, lastGet>>

\* await fetchRestaurants() returns the list
FeedAnswers(i) ==
  /\ computing[i].pc = "feed"
  /\ UNCHANGED <<engineVars, feedVars, backfillVars, callVars>>
  /\ UNCHANGED <<res, lastGet>>
  /\ \E restaurants \in Feeds :
       IF restaurants = <<>>
       THEN /\ isComputing' = FALSE
            /\ cachedRankings' = << <<>> >>
            /\ lastUpdated' = lastUpdated + 1
            /\ computing' = Without(i)
       ELSE IF nextWithSlug(restaurants, 0) = 0
       THEN Finish(i, <<>>)
       ELSE /\ CallSafeGet(i, restaurants, nextWithSlug(restaurants, 0), <<>>)
            /\ UNCHANGED <<cachedRankings, lastUpdated, isComputing>>

\* the request of the current attempt settles
AxiosAnswers(i) ==
  /\ computing[i].pc = "get"
  /\ computing[i].answer = Unsettled
  /\ \E a \in GetAnswers : computing' = [computing EXCEPT ![i].answer = a]
  /\ UNCHANGED <<engineVars, feedVars, backfillVars, callVars>>
  /\ UNCHANGED <<cachedRankings, lastUpdated, isComputing, res, lastGet>>

\* safeGet after the await: return the response, or retry after the delay,
\* or rethrow; when it settles, fetchDinnerSlotsForRestaurant builds its
\* result and the loop of computeRankings goes on
SafeGetResumes(i) ==
  LET c == computing[i]
      again == /\ c.answer.settled = "rejected"
               /\ c.retries > 0
               /\ transient(c.answer.error)
      result == IF c.answer.settled = "fulfilled"
                THEN [ok |-> c.answer.slots # <<>>, slots |-> c.answer.slots,
                      restaurant |-> c.restaurants[c.idx]]
                ELSE [ok |-> FALSE, slots |-> <<>>, restaurant |-> c.restaurants[c.idx]]
      fetched == Append(c.results, result)
      next == nextWithSlug(c.restaurants, c.idx)
  IN  /\ c.pc = "get"
      /\ c.answer # Unsettled
      /\ UNCHANGED <<engineVars, feedVars, backfillVars, callVars>>
      /\ UNCHANGED res
      /\ IF again
         THEN /\ computing' = [computing EXCEPT ![i] =
                                 [c EXCEPT !.retries = @ - 1, !.attempts = @ + 1,
                                           !.answer = Unsettled]]
              /\ UNCHANGED <<cachedRankings, lastUpdated, isComputing, lastGet>>
         ELSE /\ lastGet' = [attempts |-> c.attempts,
                             outcome |-> IF c.answer.settled = "fulfilled"
                                         THEN "returned" ELSE "thrown",
                             value |-> c.answer]
              /\ IF next = 0
                 THEN Finish(i, fetched)
                 ELSE /\ CallSafeGet(i, c.restaurants, next, fetched)
                      /\ UNCHANGED <<cachedRankings, lastUpdated, isComputing>>

NextRanking ==
  \/ GetRankings
  \/ RefreshRankings
  \/ \E i \in DOMAIN computing : FeedFails(i)
  \/ \E i \in DOMAIN computing : FeedAnswers(i)
  \/ \E i \in DOMAIN computing : AxiosAnswers(i)
  \/ \E i \in DOMAIN computing : SafeGetResumes(i)

SpecRanking == InitRanking /\ [][NextRanking]_vars

(***************************************************************************)
(* Properties.                                                             *)
(***************************************************************************)
IsNotFound(row) == toLowerCase(trim(row["Enrichment Status"])) = not_found

\* some configured option equals the token, case-insensitively
HasOption(token) ==
  \E i \in DOMAIN enrichmentStatusOptions :
    toLowerCase(trim(enrichmentStatusOptions[i])) = token

IsOption(label) ==
  \E i \in DOMAIN enrichmentStatusOptions : enrichmentStatusOptions[i] = label

WritePending == pc \in {"update", "retry"}

\* C1: the eligibility query never returns a record whose status is not_found,
\* force-refresh included, and no step of a run changes such a record, so it
\* stays not_found (and unselected) until someone outside the engine edits it.
C1_NotFoundExcluded ==
  /\ [](\A i \in DOMAIN toProcess : ~IsNotFound(toProcess[i].fields))
  /\ [][\A id \in RecIds : IsNotFound(table[id]) => table'[id] = table[id]]_vars

\* a fetch under force-refresh left out a not_found record that misses a
\* Place ID, although the batch had room for it
C1_Witness ==
  /\ pc = "enrich"
  /\ refreshPhotos
  /\ Len(toProcess) < maxPerBatch
  /\ \E id \in RecIds :
       /\ IsNotFound(table[id])
       /\ RecheckFilter(table[id])
       /\ \A i \in DOMAIN toProcess : toProcess[i].id # id

\* C2: for a record with a Name, no Place ID and a status other than
\* enriched, a lookup without a match makes enrichRecord write the not_found
\* label with Last Enriched, and the record then no longer matches the query.
C2_NoMatchWritesNotFound ==
  /\ [][(/\ pc = "lookup"
         /\ pc' # "details"
         /\ err' # ProviderFault
         /\ ~isAlreadyEnriched(rec.fields)
         /\ HasOption(not_found))
        => (/\ pc' = "update"
            /\ "Enrichment Status" \in DOMAIN payload'
            /\ IsNotFound(payload')
            /\ "Last Enriched" \in DOMAIN payload')]_vars
  /\ []((/\ pc = "sleep"
         /\ err = NoError
         /\ "Enrichment Status" \in DOMAIN payload
         /\ IsNotFound(payload))
        => ~Filter(table[rec.id]))

\* C3: the identifier lookup is never awaited for a record whose stored
\* Place ID is non-blank; the details fetch runs with the stored identifier.
C3_StoredPlaceIdSkipsLookup ==
  (toProcess # <<>> /\ clean(rec.fields["Place ID"]) # <<>>)
  => /\ pc # "lookup"
     /\ (pc # "enrich" /\ clean(rec.fields["Name"]) # <<>>)
          => placeId = clean(rec.fields["Place ID"])

\* the details of a record with a stored identifier were fetched and merged
C3_Witness ==
  /\ pc = "update"
  /\ ~inCatch
  /\ clean(rec.fields["Place ID"]) # <<>>
  /\ details # NoDetail

\* selected for no reason but the refresh flag
RefreshOnly(fields) ==
  /\ refreshPhotos
  /\ fields["Photo URL"] # <<>>
  /\ fields["Place ID"] # <<>>
  /\ ~(OPENAI_ENABLED /\ fields["Description"] = <<>>)
  /\ isAlreadyEnriched(fields)
  /\ StatusFilter(fields)

\* C4: an enriched record with a photo, fetched only because force-refresh
\* is on, keeps every field but Photo URL as fetched, and the only request
\* sent for it carries Photo URL alone.
C4_RefreshOnlyPatchesPhoto ==
  \A i \in DOMAIN toProcess :
    RefreshOnly(toProcess[i].fields)
    => /\ \A f \in Fields \ {"Photo URL"} :
            table[toProcess[i].id][f] = toProcess[i].fields[f]
       /\ (i = 1 /\ WritePending) => DOMAIN prepared = {"Photo URL"}

\* the patch was applied and replaced the photo
C4_Witness ==
  /\ pc = "sleep"
  /\ RefreshOnly(rec.fields)
  /\ table[rec.id]["Photo URL"] # rec.fields["Photo URL"]

\* the label pickEnrichmentStatus('error', 'pending') stands for
ErrorOrPendingLabel(fields) ==
  IF "Enrichment Status" \in DOMAIN fields
  THEN /\ IsOption(fields["Enrichment Status"])
       /\ \/ toLowerCase(trim(fields["Enrichment Status"])) = error
          \/ /\ toLowerCase(trim(fields["Enrichment Status"])) = pending
             /\ ~HasOption(error)
  ELSE ~HasOption(error) /\ ~HasOption(pending)

\* getPlaceDetails threw for the record at hand
DetailsThrew == toProcess # <<>> /\ err = ProviderFault /\ placeId # <<>>

\* C5: when getPlaceDetails throws for an eligible record that is not
\* enriched, enrichRecord asks for a write of the error label (pending as
\* fallback) with the fault text in Notes; the record still matches the
\* eligibility query; and a pass on which lookup and details succeed asks for
\* the full field set with the enriched label.
C5_DetailsFaultThenRetry ==
  /\ (DetailsThrew /\ ~isAlreadyEnriched(rec.fields))
     => /\ inCatch
        /\ ErrorOrPendingLabel(payload)
        /\ "Notes" \in DOMAIN payload
        /\ payload["Notes"] = ProviderFault.message
        /\ Filter(table[rec.id])
  /\ (WritePending /\ ~inCatch /\ details # NoDetail /\ ~isAlreadyEnriched(rec.fields))
     => /\ Fields \ {"Notes", "Enrichment Status"} \subseteq DOMAIN payload
        /\ payload["Place ID"] = placeId
        /\ HasOption(enriched)
             => /\ "Enrichment Status" \in DOMAIN payload
                /\ IsOption(payload["Enrichment Status"])
                /\ toLowerCase(trim(payload["Enrichment Status"])) = enriched

\* a record left in error by a details fault is enriched by a later pass
C5_Witness ==
  /\ pc = "sleep"
  /\ err = NoError
  /\ rec.fields["Place ID"] # <<>>
  /\ rec.fields["Notes"] = ProviderFault.message
  /\ toLowerCase(rec.fields["Enrichment Status"]) = error
  /\ toLowerCase(trim(table[rec.id]["Enrichment Status"])) = enriched

StatusTokens ==
  {pending, enriched, not_found, error, <<>>,
   <<" ", "E", "n", "r", "i", "c", "h", "e", "d">>, <<"H", "e", "c", "h", "o">>}

SameLabel(option, token) ==
  token # <<>> /\ toLowerCase(trim(option)) = toLowerCase(trim(token))

PickContract(desired, fallback) ==
  LET picked == pickEnrichmentStatus(desired, fallback)
      Configured(token) ==
        \E i \in DOMAIN enrichmentStatusOptions :
          SameLabel(enrichmentStatusOptions[i], token)
  IN  IF Configured(desired) THEN IsOption(picked) /\ SameLabel(picked, desired)
      ELSE IF Configured(fallback) THEN IsOption(picked) /\ SameLabel(picked, fallback)
      ELSE picked = Undefined

\* C6: pickEnrichmentStatus returns the configured option that equals the
\* desired label case-insensitively, else the one that equals the fallback,
\* else undefined; a write whose label is undefined is still sent, without
\* Enrichment Status; so every status sent to the store is a configured option.
\* (The options are fixed at start-up: the contract of the function is
\* evaluated before run() has processed its first record.)
C6_StatusFromOptions ==
  /\ (pc = "fetch" /\ totalProcessed = 0)
       => \A desired, fallback \in StatusTokens : PickContract(desired, fallback)
  /\ WritePending
     => /\ "Enrichment Status" \in DOMAIN prepared
             => IsOption(prepared["Enrichment Status"])
        /\ inCatch
             => ("Enrichment Status" \in DOMAIN prepared
                   <=> (HasOption(error) \/ HasOption(pending)))
        /\ (~inCatch /\ ~isAlreadyEnriched(rec.fields))
             => ("Enrichment Status" \in DOMAIN prepared <=> HasOption(enriched))

\* the catch handler's write goes out without a status: no label resolves
C6_Witness ==
  /\ pc = "update"
  /\ inCatch
  /\ "Enrichment Status" \notin DOMAIN prepared
  /\ "Last Enriched" \in DOMAIN prepared

\* the seeded record of the scenario was looked up as p1, merged with the
\* details of the scenario, and its write was accepted
CafeScenario ==
  /\ pc = "sleep"
  /\ rec.fields = SeedRows[1]
  /\ placeId = <<"p1">>
  /\ details = CafeDetails
  /\ err = NoError

\* C7: the record seeded as Name "Cafe X" alone, run once against a provider
\* answering p1 and {name "Cafe X", lat 51.5, lng -0.12345678912}, ends with
\* Slug "cafe-x", Place ID "p1", Lng -0.12345679 and the enriched label.
C7_CafeXEndToEnd ==
  (CafeScenario /\ HasOption(enriched))
  => /\ table[rec.id]["Slug"] = <<"c", "a", "f", "e", "-", "x">>
     /\ table[rec.id]["Place ID"] = <<"p1">>
     /\ table[rec.id]["Lat"] = <<Num(FALSE, 51, <<5>>)>>
     /\ table[rec.id]["Lng"] = <<Num(TRUE, 0, <<1, 2, 3, 4, 5, 6, 7, 9>>)>>
     /\ IsOption(table[rec.id]["Enrichment Status"])
     /\ toLowerCase(table[rec.id]["Enrichment Status"]) = enriched

C7_Witness ==
  /\ CafeScenario
  /\ enrichmentStatusOptions = DefaultStatusOptions
  /\ table[rec.id]["Enrichment Status"] = enriched

\* C8: a store fault with statusCode 404 and error NOT_FOUND is never
\* handled: the run rejects, the process exits with code 1, and nothing
\* further happens, so the rest of the batch is left unprocessed.
C8_NotFoundAborts ==
  /\ []((err.statusCode = 404 /\ err.error = "NOT_FOUND")
          => (pc = "aborted" /\ exitCode = 1))
  /\ [](pc = "aborted" => exitCode # 0)
  /\ [][pc = "aborted" => pc' = "aborted" /\ table' = table /\ toProcess' = toProcess]_vars

\* a write met NOT_FOUND with a later record of the batch still waiting
C8_Witness ==
  /\ pc = "aborted"
  /\ err = AirtableNotFound
  /\ prepared # NoPayload
  /\ Len(toProcess) > 1

\* C9: a fault raised while a record is being processed, other than a store
\* NOT_FOUND, never leaves enrichRecord: the run does not abort on it.
C9_RecordFaultsContained ==
  (pc = "aborted" /\ toProcess # <<>>) => isAirtableNotFound(err)

\* C10: the missing-Notes probe fires at most once per run.  The latch never
\* returns to true; a retry is entered only by the step that clears the
\* latch, carries no Notes and is not itself retried; and once the latch is
\* clear no request carries Notes.
C10_NotesProbeOnce ==
  /\ [][~notesFieldAvailable => ~notesFieldAvailable']_vars
  /\ [][(pc' = "retry" /\ pc # "retry") => (notesFieldAvailable /\ ~notesFieldAvailable')]_vars
  /\ [][(pc = "fetch" /\ pc' = "fetch") => (notesFieldAvailable /\ ~notesFieldAvailable')]_vars
  /\ [][pc = "retry" => pc' # "retry"]_vars
  /\ []((WritePending /\ ~notesFieldAvailable) => "Notes" \notin DOMAIN prepared)
  /\ [](pc = "retry" => ~notesFieldAvailable)

\* after the probe, the catch handler's write goes out without its Notes
C10_Witness ==
  /\ pc = "update"
  /\ inCatch
  /\ ~notesFieldAvailable
  /\ "Notes" \in DOMAIN payload
  /\ "Notes" \notin DOMAIN prepared

\* a pass over the record at hand has just ended, and no call of the run,
\* provider or store, has failed so far in it
PassSucceeded == pc = "sleep" /\ err = NoError /\ storeFaults = 0

Replayable == pc = "sleep" /\ err \in {NoError, ProviderFault, ReferenceError}

\* what enrichRecord asks to write on a second pass over the row the first
\* pass left behind, the providers answering as they did on the first pass
RerunFields ==
  LET row == table[rec.id]
      pid == Or(clean(row["Place ID"]), placeId)
      text == Or(clean(row["Description"]), description)
  IN  IF clean(row["Name"]) = <<>> THEN NoPayload
      ELSE IF err # NoError
      THEN IF isAlreadyEnriched(row) THEN NoPayload
           ELSE upsertBySlug(Slug(row), FallbackFields(row, err), FALSE)
      ELSE IF isAlreadyEnriched(row)
      THEN upsertBySlug(Slug(row), PhotoPatch(row, details), TRUE)
      ELSE upsertBySlug(Slug(row), FullPayload(row, pid, details, text), FALSE)

\* C12: a run over the store a completed run left, the providers answering
\* the same, creates no record and changes no field but Last Enriched.  Every
\* request goes to the fetched record itself, an accepted request is what that
\* record then holds, and the request a second pass would send leaves every
\* field of the record but Last Enriched as the first pass left it.
C12_RerunChangesNothing ==
  /\ WritePending => upsertRecordId(Slug(rec.fields), rec.id) = rec.id
  /\ (pc = "sleep" /\ prepared # NoPayload /\ err \in {NoError, ProviderFault, ReferenceError})
     => \A f \in DOMAIN prepared : table[rec.id][f] = prepared[f]
  /\ Replayable
     => LET again == Applied(table[rec.id], sanitizeOptionalFields(RerunFields))
        IN  \A f \in Fields \ {"Last Enriched"} : again[f] = table[rec.id][f]

\* a record written by an earlier batch of this run was fetched and written
\* again, and holds what it held before
C12_Witness ==
  /\ pc = "sleep"
  /\ iteration = 2
  /\ err = NoError
  /\ prepared # NoPayload
  /\ rec.fields["Place ID"] = <<"p1">>
  /\ table[rec.id] = rec.fields

\* C13: no two records carry the same non-blank Slug, the seeded table
\* having had no two such records; this holds for records seeded with a blank
\* Slug as well, which the engine fills with the slugified Name.
C13_SlugUnique ==
  \A i, j \in RecIds :
    (i # j /\ table[i]["Slug"] # <<>>) => table[i]["Slug"] # table[j]["Slug"]

\* C14: every outbound call, store select and update as well as text search,
\* place details and text generation, is issued through limiter.schedule.
C14_AllCallsLimited ==
  [][(pc \in DOMAIN awaitedCall) => (awaitedCall[pc] \in limiterScheduled)]_vars

\* C15: the records of a batch are processed strictly one after another.
\* enrichRecord starts only from a fetch or from the sleep that follows the
\* previous record; when it starts, no call or write of an earlier record is
\* outstanding; the record at hand changes only at the sleep; and while a
\* record is at hand no other record is written.
C15_OneRecordAtATime ==
  /\ [][pc' = "enrich" => pc \in {"fetch", "sleep"}]_vars
  /\ [](pc = "enrich"
         => /\ placeId = <<>> /\ details = NoDetail /\ description = <<>>
            /\ payload = NoPayload /\ prepared = NoPayload /\ ~inCatch)
  /\ [][toProcess' # toProcess => pc \in {"fetch", "sleep"}]_vars
  /\ [][\A id \in RecIds :
          table'[id] # table[id] => (WritePending /\ id = rec.id)]_vars

\* the second record of a batch starts after the first one has been written
C15_Witness ==
  /\ pc = "enrich"
  /\ iteration = 1
  /\ totalProcessed = 1
  /\ rec.id = 2
  /\ table[1]["Place ID"] = <<"p1">>

\* C16: a request that carries Lat or Lng carries a value of at most 8
\* decimal places, whether the provider supplied it or the record held it.
C16_CoordinatesRounded ==
  WritePending
  => \A f \in {"Lat", "Lng"} :
       (f \in DOMAIN prepared /\ prepared[f] # <<>>) => Len(prepared[f][1].frac) <= 8

\* the provider returned no location: the coordinates the record held, of 9
\* and 10 decimal places, go out rounded
C16_Witness ==
  /\ pc = "update"
  /\ details = SparseDetails
  /\ Len(rec.fields["Lat"][1].frac) = 9
  /\ Len(rec.fields["Lng"][1].frac) = 10
  /\ prepared["Lat"] = <<Num(FALSE, 51, <<5, 2, 4, 5, 6, 7, 9>>)>>
  /\ prepared["Lng"] = <<Num(TRUE, 0, <<0, 7, 7>>)>>

\* the records the selection predicate of the claim holds for
Selectable ==
  {id \in RecIds :
     /\ \/ toLowerCase(table[id]["Enrichment Status"]) \in {pending, error, enriched}
        \/ table[id]["Enrichment Status"] = <<>>
     /\ \/ table[id]["Place ID"] = <<>>
        \/ table[id]["Photo URL"] = <<>>
        \/ (OPENAI_ENABLED /\ table[id]["Description"] = <<>>)
        \/ refreshPhotos}

MergedColumns ==
  {"Address", "City", "Postcode", "Lat", "Lng", "Website", "Phone", "Cuisine",
   "Price Level", "Rating", "User Ratings", "Opening Hours JSON", "Photo URL",
   "Photo Attribution", "Description"}

\* what the provider supplied for a column, <<>> when it supplied nothing
Supplied(f, d) ==
  CASE f = "Address" -> d.formatted_address
    [] f = "City" -> extractAddressBits(d.address_components).city
    [] f = "Postcode" -> extractAddressBits(d.address_components).postcode
    [] f = "Lat" -> d.lat
    [] f = "Lng" -> d.lng
    [] f = "Website" -> d.website
    [] f = "Phone" -> Or(d.formatted_phone_number, d.international_phone_number)
    [] f = "Cuisine" -> firstCuisine(d.types)
    [] f = "Price Level" -> d.price_level
    [] f = "Rating" -> d.rating
    [] f = "User Ratings" -> d.user_ratings_total
    [] f = "Opening Hours JSON" -> d.weekday_text
    [] f = "Photo URL" -> photoUrlOf(d)
    [] f = "Photo Attribution" -> photoAttrOf(d)
    [] f = "Description" -> IF clean(rec.fields["Description"]) # <<>> THEN <<>> ELSE description

\* the value a record holds in a column, as a write may carry it over: a
\* coordinate rounded to 8 places, a description trimmed
CarriedOver(f, fields) ==
  IF f \in {"Lat", "Lng"} THEN <<roundToPrecision(fields[f][1], 8)>>
  ELSE IF f = "Description" THEN clean(fields[f])
  ELSE fields[f]

\* the full merged write of the record at hand is about to be sent
FullWritePending ==
  WritePending /\ ~inCatch /\ details # NoDetail /\ "Place ID" \in DOMAIN payload

\* C18: a full merged write loses nothing the record holds: in every merged
\* column for which the provider supplied no value and the record holds one,
\* the value written is the one the record holds.
C18_MergeKeepsExisting ==
  FullWritePending
  => \A f \in MergedColumns :
       (Supplied(f, details) = <<>> /\ rec.fields[f] # <<>>)
       => payload[f] = CarriedOver(f, rec.fields)

\* C19: the photo-only patch is sent only for an enriched record that was
\* fetched for the refresh flag alone; an enriched record fetched because its
\* Place ID is blank, whose lookup and details succeed, gets the full merged
\* write, the resolved Place ID included.
C19_FullWriteWhenCoreMissing ==
  /\ (WritePending /\ ~inCatch /\ DOMAIN payload = {"Photo URL"})
     => RefreshOnly(rec.fields)
  /\ (WritePending /\ ~inCatch /\ details # NoDetail /\ isAlreadyEnriched(rec.fields)
        /\ clean(rec.fields["Place ID"]) = <<>>)
     => /\ MergedColumns \subseteq DOMAIN payload
        /\ "Place ID" \in DOMAIN payload
        /\ payload["Place ID"] = placeId

\* a provider call of the record at hand threw
ProviderThrew == toProcess # <<>> /\ err = ProviderFault

\* the handler's write: the error label (pending as fallback) and the fault text
FallbackWritten ==
  /\ inCatch
  /\ pc \in {"update", "retry", "sleep"}
  /\ ErrorOrPendingLabel(payload)
  /\ "Notes" \in DOMAIN payload
  /\ payload["Notes"] = ProviderFault.message
  /\ pc = "sleep" => \A f \in DOMAIN prepared : table[rec.id][f] = prepared[f]

DescribedEmpty ==
  /\ WritePending
  /\ ~inCatch
  /\ details # NoDetail
  /\ clean(rec.fields["Description"]) = <<>>
  /\ description = <<>>

\* the request carries the full merged field set with the enriched label
FullWriteEnriched ==
  /\ MergedColumns \cup {"Name", "Slug", "Place ID", "Last Enriched"} \subseteq DOMAIN payload
  /\ HasOption(enriched)
       => /\ "Enrichment Status" \in DOMAIN payload
          /\ IsOption(payload["Enrichment Status"])
          /\ toLowerCase(trim(payload["Enrichment Status"])) = enriched

\* C21: generateDescription never throws and returns '' when no key is
\* configured or the provider call fails; the record then still gets its full
\* merged write with the enriched label; and a Description the record holds
\* is what the write carries.
C21_DescriptionNeverBlocks ==
  /\ pc = "describe" => (OPENAI_ENABLED /\ err = NoError)
  /\ DescribedEmpty => (err = NoError /\ FullWriteEnriched)
  /\ (WritePending /\ ~inCatch /\ "Description" \in DOMAIN payload
        /\ clean(rec.fields["Description"]) # <<>>)
     => payload["Description"] = clean(rec.fields["Description"])

\* the full merged write of the record at hand, enriched label included, has
\* been accepted by the store
FullWriteAccepted ==
  /\ pc = "sleep"
  /\ ~inCatch
  /\ details # NoDetail
  /\ "Place ID" \in DOMAIN payload
  /\ "Enrichment Status" \in DOMAIN payload
  /\ toLowerCase(trim(payload["Enrichment Status"])) = enriched
  /\ \A f \in DOMAIN prepared : table[rec.id][f] = prepared[f]

C26_RefreshRunTerminates ==
  (PassSucceeded /\ prepared # NoPayload /\ runContinuously /\ refreshPhotos)
  => ~(Filter(table[rec.id]) /\ table[rec.id] = rec.fields)

\* the record's status is the configured enriched label
HoldsEnrichedLabel(fields) ==
  HasOption(enriched) /\ toLowerCase(trim(fields["Enrichment Status"])) = enriched

\* C27: for a record whose status is the enriched label, a lookup without a
\* match, a details fetch that returns null and a provider call that throws
\* all end the pass with no request to the store: enrichRecord returns, and
\* the record holds what it held when it was fetched.
C27_EnrichedNeverDowngraded ==
  /\ [][(/\ pc = "lookup" \/ pc = "details"
         /\ HoldsEnrichedLabel(rec.fields)
         /\ pc' \notin {"details", "describe"}
         /\ details' = NoDetail)
        => (pc' = "sleep" /\ payload' = NoPayload /\ table' = table)]_vars
  /\ []((pc = "sleep" /\ payload = NoPayload) => table[rec.id] = rec.fields)

\* the lookup of an enriched record without a Place ID found no match, and
\* enrichRecord returned without a write
C27_Witness ==
  /\ pc = "sleep"
  /\ HoldsEnrichedLabel(rec.fields)
  /\ placeId = <<>>
  /\ err = ReferenceError
  /\ payload = NoPayload
  /\ table[rec.id] = rec.fields

C29_StatusWriteStampsLastEnriched ==
  /\ (WritePending /\ "Enrichment Status" \in DOMAIN prepared)
     => /\ "Last Enriched" \in DOMAIN prepared
        /\ prepared["Last Enriched"] \in {currentDateForAirtable, currentTimestampForAirtable}
  /\ (pc = "sleep" /\ "Enrichment Status" \in DOMAIN prepared
        /\ err \in {NoError, ProviderFault, ReferenceError})
     => /\ table[rec.id]["Enrichment Status"] = prepared["Enrichment Status"]
        /\ table[rec.id]["Last Enriched"] \in {currentDateForAirtable, currentTimestampForAirtable}
  /\ (WritePending /\ DOMAIN payload = {"Photo URL"})
     => "Last Enriched" \notin DOMAIN prepared
  /\ (pc = "sleep" /\ DOMAIN payload = {"Photo URL"})
     => /\ table[rec.id]["Last Enriched"] = rec.fields["Last Enriched"]
        /\ table[rec.id]["Enrichment Status"] = rec.fields["Enrichment Status"]

\* a failed attempt was recorded: the handler's write set the error label and
\* moved Last Enriched on from the stamp the record held
C29_Witness ==
  /\ pc = "sleep"
  /\ inCatch
  /\ toLowerCase(table[rec.id]["Enrichment Status"]) = error
  /\ rec.fields["Last Enriched"] # <<>>
  /\ table[rec.id]["Last Enriched"] # rec.fields["Last Enriched"]

\* the records the store would select now, whatever the batch size
Eligible == {id \in RecIds : Filter(table[id])}

\* C30: --once without --all makes the run single-shot, every other
\* combination of the two flags makes it continuous.  A single-shot run
\* processes one batch of at most maxPerBatch records and stops after its last
\* record; a continuous run fetches again after every batch and stops only on
\* an empty batch.  totalProcessed grows by one for each record enrichRecord
\* has returned from and by nothing else, and when the run is done no fetched
\* record is left over, so the total is the number of records passed to
\* enrichRecord.
C30_SingleShotOrContinuous ==
  /\ []((pc = "fetch" /\ totalProcessed = 0)
          => \A once, all \in BOOLEAN :
               runContinuouslyFor(once, all) = ~(once /\ ~all))
  /\ [](~runContinuously
          => (iteration <= 1 /\ totalProcessed + Len(toProcess) <= maxPerBatch))
  /\ [][(~runContinuously /\ pc = "sleep" /\ Len(toProcess) = 1) => pc' = "done"]_vars
  /\ [][(runContinuously /\ pc = "sleep" /\ Len(toProcess) = 1) => pc' = "fetch"]_vars
  /\ [][(runContinuously /\ pc # "done" /\ pc' = "done")
          => (pc = "fetch" /\ toProcess' = <<>>)]_vars
  /\ [][(pc = "fetch" /\ pc' = "enrich")
          => (totalProcessed' = totalProcessed /\ Len(toProcess') <= maxPerBatch)]_vars
  /\ [][totalProcessed' # totalProcessed
          => (/\ pc = "sleep"
              /\ totalProcessed' = totalProcessed + 1
              /\ toProcess' = Tail(toProcess))]_vars
  /\ [][pc = "sleep" => totalProcessed' = totalProcessed + 1]_vars
  /\ [](pc = "done" => toProcess = <<>>)

\* a single-shot run has stopped after a batch of one although another
\* record is still eligible
C30_Witness ==
  /\ pc = "done"
  /\ ~runContinuously
  /\ iteration = 1
  /\ totalProcessed = 1
  /\ maxPerBatch = 1
  /\ Cardinality(Eligible) = 2

\* C23: fetchRestaurants answers from the cache, without reading the store,
\* exactly when the cache holds a record set, the entry is younger than the
\* TTL and the request does not force a refresh; otherwise it reads the store,
\* and when the read returns it replaces the cache with what was read,
\* stamped with the time of the replacement.  Nothing else changes the cache,
\* and a response marked as cached is younger than the TTL when it is given.
C23_CacheWithinTtl ==
  /\ [][\A r \in ReqIds :
          (requests[r].phase = "idle" /\ requests'[r].phase # "idle")
          => /\ cache' = cache
             /\ IF /\ cache.data # NoData
                   /\ clock - cache.fetchedAt < ttl
                   /\ ~requests'[r].forceRefresh
                THEN /\ requests'[r].phase = "responded"
                     /\ requests'[r].records = NoData
                     /\ requests'[r].result =
                          [data |-> cache.data, fetchedAt |-> cache.fetchedAt, cached |-> TRUE]
                ELSE requests'[r].phase = "reading"]_vars
  /\ [][\A r \in ReqIds :
          (requests[r].phase = "read" /\ requests'[r].phase # "read")
          => /\ cache' = [data |-> requests[r].records, fetchedAt |-> clock]
             /\ requests'[r].phase = "responded"
             /\ requests'[r].result =
                  [data |-> requests[r].records, fetchedAt |-> clock, cached |-> FALSE]]_vars
  /\ [][cache' # cache => \E r \in ReqIds : requests[r].phase = "read"]_vars
  /\ [](\A r \in ReqIds :
          (requests[r].phase = "responded" /\ requests[r].result.cached)
          => /\ requests[r].at - requests[r].result.fetchedAt < ttl
             /\ requests[r].result.data # NoData)

\* a response was given from the cache some time after the entry was stored,
\* when the table had already changed
C23_Witness ==
  \E r \in ReqIds :
    /\ requests[r].phase = "responded"
    /\ requests[r].result.cached
    /\ requests[r].at > requests[r].result.fetchedAt
    /\ requests[r].result.data # <<storeVersion>>

\* C22: within one backfill run without --force, findInstagramProfile is
\* invoked at most once per distinct website URL, however many records
\* share that URL.
C22_ScraperOncePerWebsite ==
  ~forceRecheck =>
    \A i, j \in DOMAIN invocations : invocations[i] = invocations[j] => i = j

\* the last website findInstagramProfile was called with
lastInvoked == invocations[Len(invocations)]

\* C24: findInstagramProfile never throws: whatever the request ends with,
\* the call settles with a value; a network failure, DNS failure, timeout or
\* rejected HTTP status gives an error result, and a missing website URL
\* gives an error result without a request having been made.
C24_FindInstagramProfileNeverThrows ==
  /\ lookup.settled = "fulfilled"
  /\ step # "fatal" \/ invocations = <<>>
  /\ (response # NoAnswer /\ ~validateStatus(response.status)) =>
       /\ lookup.error = "request_failed"
       /\ lookup.url = <<>>
  /\ (invocations # <<>> /\ step # "lookup" /\ trim(lastInvoked) = <<>>) =>
       /\ response = NoAnswer
       /\ lookup.error = "invalid_website"

\* a request timed out and the call returned an error result, after which
\* the run went on to its end
C24_Witness ==
  /\ step = "done"
  /\ response.code = "ECONNABORTED"
  /\ lookup.settled = "fulfilled"
  /\ lookup.error = "request_failed"

\* C31: enrichRecord's catch handler is entered only by the fault of a
\* provider or store call: when every call made for a record returned
\* normally, also a lookup without a match or a details fetch returning
\* null, the handler does not run and writes no error label or error text.
C31_CatchOnlyOnCallFault ==
  inCatch => (err = ProviderFault \/ err \in WriteFaults)

C33_RoundingIdempotent ==
  (fn = "roundToPrecision" /\ Len(results) = 2) => results[2] = results[1]

\* C34: coerceNumericField(incoming, existing) returns the number incoming
\* parses to when it parses to a finite number, otherwise the number
\* existing parses to, otherwise null; with a precision the result is null
\* in the same cases.
C34_PrefersIncomingThenExisting ==
  (fn = "coerceNumericField" /\ results # <<>>) =>
    /\ args.precision = NoPrecision =>
         results[1] = IF args.incoming.number # <<>> THEN args.incoming.number
                      ELSE args.fallback.number
    /\ results[1] = <<>> <=>
         (args.incoming.number = <<>> /\ args.fallback.number = <<>>)

\* incoming was non-numeric text and existing a numeric string: the call
\* returned the number of existing
C34_Witness ==
  /\ fn = "coerceNumericField"
  /\ args.incoming.value = Text(<<"n", "/", "a">>)
  /\ args.fallback.value = Text(<<" ", "5", "1", ".", "5", "0", " ">>)
  /\ args.precision = NoPrecision
  /\ results = << <<Num(FALSE, 51, <<5>>)>> >>

\* C35: selectDescriptionPrompt picks the template at index
\* hashString(slug + ':' + name) mod 3, the hash being the 32-bit wrapping
\* hash * 31 + char code made non-negative; the index is in 0..2, also when
\* the wrapped hash is negative or -2^31, and a second call gives the same.
C35_PromptIndexFromHash ==
  (fn = "selectDescriptionPrompt" /\ results # <<>>) =>
    /\ \A i \in DOMAIN results :
         /\ results[i].index = args.index
         /\ results[i].index \in 0..2
         /\ results[i].template = descriptionPromptTemplates[args.index + 1]
    /\ Len(results) = 2 => results[2] = results[1]

\* the key athp:iqjc hashes to -2^31; both calls chose the third template
C35_Witness ==
  /\ fn = "selectDescriptionPrompt"
  /\ args.slug = <<"a", "t", "h", "p">>
  /\ hashLoop(args.slug \o <<":">> \o args.name, 1, Int32(0, 0)) = Int32(32768, 0)
  /\ Len(results) = 2
  /\ results[2].index = 2

\* C36: whenever an invocation of computeRankings ends, normally or by a
\* throw, isComputing is false again: with no invocation under way the flag
\* is clear, so that a refresh is accepted and getRankings can serve.
C36_FlagClearWhenNoComputation ==
  computing = <<>> => ~isComputing

\* C37: at most one computation is under way at any time; a refresh that
\* arrives while one is running is answered 429 and starts nothing; a
\* getRankings that arrives while one is running is answered 202; a 200
\* carries the cached rows, which change only when a computation ends.
C37_OneComputationAtATime ==
  [][/\ Len(computing') <= 1
     /\ (computing # <<>> /\ res' # res /\ res'.request = "refresh")
          => (res'.status = 429 /\ computing' = computing)
     /\ (computing # <<>> /\ res' # res /\ res'.request = "get")
          => (res'.status = 202 /\ computing' = computing)
     /\ (res' # res /\ res'.status = 200)
          => (computing' = <<>> /\ cachedRankings' = <<res'.rankings>>)
     /\ cachedRankings' # cachedRankings => Len(computing') < Len(computing)]_vars

\* a refresh arrived while the slots of a restaurant were being fetched and
\* was answered 429
C37_Witness ==
  /\ Len(computing) = 1
  /\ computing[1].pc = "get"
  /\ res.request = "refresh"
  /\ res.status = 429

\* C38: safeGet makes at most 4 attempts per URL, the first plus 3 retries,
\* and the retries left decrease with every attempt; it retries only after
\* HTTP 429, 500, 502, 503 or 504 or ERR_HTTP2_PROTOCOL_ERROR, rethrows any
\* other error at once, rethrows the last error when no retry is left, and
\* returns the first successful response.
C38_SafeGetAttempts ==
  [][\A i \in DOMAIN computing :
       LET c == computing[i]
           retried == /\ c.answer.settled = "rejected"
                      /\ c.attempts < 4
                      /\ \/ c.answer.error.status \in {429, 500, 502, 503, 504}
                         \/ c.answer.error.code = "ERR_HTTP2_PROTOCOL_ERROR"
       IN  c.pc = "get" =>
             /\ c.attempts \in 1..4
             /\ c.retries = 4 - c.attempts
             /\ (c.answer # Unsettled /\ res' = res) =>
                  IF retried
                  THEN /\ i \in DOMAIN computing'
                       /\ computing'[i].idx = c.idx
                       /\ computing'[i].attempts = c.attempts + 1
                       /\ computing'[i].answer = Unsettled
                       /\ lastGet' = lastGet
                  ELSE lastGet' = [attempts |-> c.attempts,
                                   outcome |-> IF c.answer.settled = "fulfilled"
                                               THEN "returned" ELSE "thrown",
                                   value |-> c.answer]]_vars

\* the fourth attempt was answered 503 and safeGet threw that error
C38_Witness ==
  /\ lastGet.attempts = 4
  /\ lastGet.outcome = "thrown"
  /\ lastGet.value.error.status = 503

\* C39: for a Notes text n without the sentinel and a reason r, the text
\* addInstagramSkipNote(n, r) returns carries the sentinel, adding again
\* leaves it unchanged, removeInstagramSkipNote of it has no sentinel and is
\* the trimmed non-empty lines of n, and a record that stores it is skipped
\* by a run without --force.
C39_SkipNoteRoundTrip ==
  (fn = "addInstagramSkipNote" /\ Len(results) = 3) =>
    /\ hasInstagramSkipNote(results[1])
    /\ results[2] = results[1]
    /\ ~hasInstagramSkipNote(results[3])
    /\ results[3] = joinLines(args.note.lines)
    /\ shouldSkip([Website |-> <<"x", ".", "u", "k">>, Instagram |-> <<>>,
                   Notes |-> ensureNewlineSeparated(results[1])], FALSE)

====
